---- MODULE Spec2Model ----
(***************************************************************************)
(* Quality-gate orchestration of AB Code Reviewer: the command executor    *)
(* (utils/subprocess_utils.py), the gate registry (core/config_loader.py), *)
(* the quality gate manager (core/quality_gate.py), the two runners        *)
(* (core/enhanced_runner.py, core/runner.py), the AI review client         *)
(* (ai/gemini_client.py) with the git diff it reads (utils/git.py), and    *)
(* the review command with its configuration functions (cli.py).           *)
(*                                                                         *)
(* Texts (outputs, error messages, command vectors) are sequences of       *)
(* words; a substring test is a test for a contiguous run of words. Where  *)
(* lengths matter (the AI context) a text is a sequence of characters.     *)
(***************************************************************************)
EXTENDS Integers, Sequences, FiniteSets, TLC

\* ------------------------------------------------------------------------
\* Bounds of the model
\* ------------------------------------------------------------------------

\* longest tools section (number of entries) of a configuration document
MaxTools == 2

\* ------------------------------------------------------------------------
\* Texts
\* ------------------------------------------------------------------------

\* str.lower() on one word
LowerWord(w) ==
  CASE w = "Command" -> "command"
    [] w = "Tool" -> "tool"
    [] w = "Unexpected" -> "unexpected"
    [] w = "Nothing" -> "nothing"
    [] w = "Would" -> "would"
    [] w = "Timed" -> "timed"
    [] w = "Error:" -> "error:"
    [] OTHER -> w

\* str.lower() on a text
Lower(s) == [i \in 1..Len(s) |-> LowerWord(s[i])]

\* Python's  pat in s
Contains(s, pat) ==
  \E i \in 0..(Len(s) - Len(pat)) : SubSeq(s, i + 1, i + Len(pat)) = pat

\* combined outputs (stdout + stderr) a tool may print
Outputs ==
  { <<"All", "done", "1", "file", "left", "unchanged">>,
    <<"Would", "reformat", "main.py">> }

\* ------------------------------------------------------------------------
\* Python dicts: a sequence of [key, val] entries in insertion order, with
\* no key twice
\* ------------------------------------------------------------------------

Keys(d) == [i \in 1..Len(d) |-> d[i].key]

Has(d, k) == \E i \in 1..Len(d) : d[i].key = k

Get(d, k) == d[CHOOSE i \in 1..Len(d) : d[i].key = k].val

\* d[k] = v : a present key keeps its place, a new key goes last
Put(d, k, v) ==
  IF Has(d, k)
    THEN [i \in 1..Len(d) |-> IF d[i].key = k THEN [key |-> k, val |-> v] ELSE d[i]]
    ELSE Append(d, [key |-> k, val |-> v])

\* the elements of a sequence
Range(s) == { s[i] : i \in 1..Len(s) }

\* the sequences over S without repetition, of length at most n
RECURSIVE DistinctSeqs(_, _)
DistinctSeqs(S, n) ==
  IF n = 0 THEN { <<>> }
  ELSE LET shorter == DistinctSeqs(S, n - 1)
       IN shorter \cup
          UNION { { Append(q, x) : x \in S \ Range(q) } : q \in shorter }

\* ------------------------------------------------------------------------
\* Exceptions (utils/exceptions.py and the builtins the code meets)
\* ------------------------------------------------------------------------

ExceptionBase(cls) ==
  CASE cls = "ToolNotFoundError" -> "ABReviewerError"
    [] cls = "ToolExecutionError" -> "ABReviewerError"
    [] cls = "ABReviewerError" -> "Exception"
    [] cls = "TypeError" -> "Exception"
    [] cls = "ValueError" -> "Exception"
    [] cls = "OSError" -> "Exception"
    [] cls = "AIReviewError" -> "ABReviewerError"
    [] OTHER -> "BaseException"

\* isinstance(e, cls), i.e. whether  except cls  catches an exception of
\* class c
IsInstance(c, cls) ==
  \/ c = cls
  \/ ExceptionBase(c) = cls
  \/ ExceptionBase(ExceptionBase(c)) = cls

Returned(success, output) ==
  [kind |-> "return", success |-> success, output |-> output,
   exc |-> "none", msg |-> <<>>, spawned |-> TRUE]

Raised(cls, msg, spawned) ==
  [kind |-> "raise", success |-> FALSE, output |-> <<>>,
   exc |-> cls, msg |-> msg, spawned |-> spawned]

\* ------------------------------------------------------------------------
\* Command executor (utils/subprocess_utils.py)
\* ------------------------------------------------------------------------

\* what the operating system does with one command: whether the executable
\* resolves on the search path, how the child process ends, what it prints
ProcEnds == {"exit0", "exitN", "timeout", "fnf", "oserror"}
ExecEnvs ==
  { [which |-> FALSE, proc |-> "exit0", out |-> <<>>] }
  \cup [which : {TRUE}, proc : {"timeout", "fnf", "oserror"}, out : {<<>>}]
  \cup [which : {TRUE}, proc : {"exit0", "exitN"}, out : Outputs]

\* the keyword parameters run_command accepts
run_command_params == {"cmd", "cwd", "timeout", "capture_output"}

\* mutant: no lookup on the search path before the spawn
run_command_no_lookup(cmd, kwargs, timeout, env) ==
  IF env.proc = "exit0" THEN Returned(TRUE, env.out)
  ELSE IF env.proc = "exitN" THEN Returned(FALSE, env.out)
  ELSE Raised("ToolExecutionError",
              <<"Unexpected", "error", "running", "command:">> \o cmd, TRUE)

run_command(cmd, kwargs, timeout, env) ==
  IF ~(kwargs \subseteq run_command_params)
    THEN Raised("TypeError", <<"unexpected", "keyword", "argument">>, FALSE)
  ELSE IF cmd = <<>>
    THEN Raised("ValueError", <<"cmd", "must", "be", "a", "non-empty", "list">>, FALSE)
  ELSE IF ~env.which
    THEN Raised("ToolNotFoundError", <<"Tool", "not", "found:", cmd[1]>>, FALSE)
  ELSE CASE env.proc = "exit0" -> Returned(TRUE, env.out)
         [] env.proc = "exitN" -> Returned(FALSE, env.out)
         [] env.proc = "timeout" ->
              Raised("ToolExecutionError",
                     <<"Command", "timeout", "after", ToString(timeout), "s:">> \o cmd,
                     TRUE)
         [] env.proc = "fnf" ->
              Raised("ToolNotFoundError", <<"Command", "not", "found:", cmd[1]>>, TRUE)
         [] OTHER ->
              Raised("ToolExecutionError",
                     <<"Unexpected", "error", "running", "command:">> \o cmd, TRUE)

\* how the  <tool> --version  probe of check_tool_available ends
\* "oserror" is any failure of the spawn other than the two caught
\* (permission denied, exec format error, ...)
ProbeEnds == {"missing", "exit0", "exitN", "timeout", "fnf", "oserror"}

\* True or False, or the exception of the spawn that is not caught
check_tool_available(probe) ==
  IF probe = "oserror"
    THEN Raised("OSError", <<"Exec", "format", "error">>, TRUE)
    ELSE Returned(probe = "exit0", <<>>)

\* ------------------------------------------------------------------------
\* Gate types (core/gate_types.py)
\* ------------------------------------------------------------------------

GateStatus == {"pending", "running", "success", "failed", "skipped", "timeout"}

QualityGateResult(tool_name, status, output, error, metadata) ==
  [tool_name |-> tool_name, status |-> status, output |-> output,
   error |-> error, metadata |-> metadata]

\* the success predicates a gate configuration may carry:  none  is the
\* absent predicate,  raises  a predicate that throws
CriteriaKinds == {"none", "no_reformat", "always_true", "raises"}

\* mutant: the formatter's predicate does not look for "reformatted"
success_criteria_ignores_reformatted(kind, output) ==
  CASE kind = "no_reformat" ->
         [raised |-> FALSE,
          value |-> /\ ~Contains(Lower(output), <<"would", "reformat">>)
                    /\ \/ Contains(Lower(output), <<"left", "unchanged">>)
                       \/ Contains(Lower(output), <<"nothing", "to", "do">>)]
    [] kind = "always_true" -> [raised |-> FALSE, value |-> TRUE]
    [] OTHER -> [raised |-> TRUE, value |-> FALSE]

\* gate_config.success_criteria(output): whether it raised, and its value
success_criteria(kind, output) ==
  CASE kind = "no_reformat" ->
         [raised |-> FALSE,
          value |-> /\ ~Contains(Lower(output), <<"would", "reformat">>)
                    /\ ~Contains(Lower(output), <<"reformatted">>)
                    /\ \/ Contains(Lower(output), <<"left", "unchanged">>)
                       \/ Contains(Lower(output), <<"nothing", "to", "do">>)]
    [] kind = "always_true" -> [raised |-> FALSE, value |-> TRUE]
    [] OTHER -> [raised |-> TRUE, value |-> FALSE]

\* ------------------------------------------------------------------------
\* Gate registry (core/config_loader.py)
\* ------------------------------------------------------------------------

KnownGates == {"formatter", "linter", "security", "tests"}

default_configs(tool_name) ==
  CASE tool_name = "formatter" ->
         [command |-> <<"black", "--check", "--diff", ".">>, timeout |-> 60,
          required |-> FALSE, auto_install |-> TRUE,
          install_command |-> <<"pip", "install", "black">>,
          success_criteria |-> "no_reformat"]
    [] tool_name = "linter" ->
         [command |-> <<"pylint", "--output-format=text", "--score=no", ".">>,
          timeout |-> 120, required |-> FALSE, auto_install |-> TRUE,
          install_command |-> <<"pip", "install", "pylint">>,
          success_criteria |-> "always_true"]
    [] tool_name = "security" ->
         [command |-> <<"bandit", "-r", ".", "-f", "text">>, timeout |-> 90,
          required |-> FALSE, auto_install |-> TRUE,
          install_command |-> <<"pip", "install", "bandit">>,
          success_criteria |-> "always_true"]
    [] OTHER ->
         [command |-> <<"pytest", "--tb=short", "-v", "--maxfail=5">>,
          timeout |-> 180, required |-> FALSE, auto_install |-> TRUE,
          install_command |-> <<"pip", "install", "pytest", "pytest-cov">>,
          success_criteria |-> "always_true"]

\* the names a tools section may use: the known gates and an unknown one
ConfigNames == KnownGates \cup {"typecheck"}

\* one entry of the tools section:  enabled  is true, false or not given,
\* args  is given or not
ArgLists == { <<"--quiet">> }
ToolConfigs ==
  [enabled : {"true", "false", "unset"}, has_args : {FALSE}, args : { <<>> }]
  \cup [enabled : {"true", "false", "unset"}, has_args : {TRUE}, args : ArgLists]

\* the tools sections with at most n entries
ToolsDocs(n) ==
  UNION { { [i \in 1..Len(ks) |-> [key |-> ks[i], val |-> c[i]]] :
              c \in [1..Len(ks) -> ToolConfigs] } :
          ks \in DistinctSeqs(ConfigNames, n) }

\* mutant: a gate runs only when its entry says enabled: true
EnabledOrDefault_explicit(tool_config) == tool_config.enabled = "true"

\* tool_config.get("enabled", True)
EnabledOrDefault(tool_config) == tool_config.enabled # "false"

\* mutant: the success predicate is not carried over into the configuration
QualityGateConfig_no_criteria(name, d) ==
  [name |-> name, command |-> d.command, timeout |-> d.timeout,
   required |-> d.required, auto_install |-> d.auto_install,
   install_command |-> d.install_command, check_available |-> TRUE,
   success_criteria |-> "none"]

QualityGateConfig(name, d) ==
  [name |-> name, command |-> d.command, timeout |-> d.timeout,
   required |-> d.required, auto_install |-> d.auto_install,
   install_command |-> d.install_command, check_available |-> TRUE,
   success_criteria |-> d.success_criteria]

\* the command of a gate: the default, or the default executable followed by
\* the configured args and "."
gate_command(tool_name, tool_config) ==
  IF tool_config.has_args
    THEN <<default_configs(tool_name).command[1]>> \o tool_config.args \o <<".">>
    ELSE default_configs(tool_name).command

\* the loop of get_quality_gate_configs over the first n entries
RECURSIVE gate_configs_upto(_, _)
gate_configs_upto(tools, n) ==
  IF n = 0 THEN <<>>
  ELSE LET before == gate_configs_upto(tools, n - 1)
           tool_name == tools[n].key
           tool_config == tools[n].val
       IN IF ~EnabledOrDefault(tool_config) THEN before
          ELSE IF tool_name \notin KnownGates THEN before
          ELSE Put(before, tool_name,
                   QualityGateConfig(tool_name,
                     [default_configs(tool_name) EXCEPT
                        !.command = gate_command(tool_name, tool_config)]))

get_quality_gate_configs(tools) == gate_configs_upto(tools, Len(tools))

\* ------------------------------------------------------------------------
\* Quality gate manager (core/quality_gate.py): one gate
\* ------------------------------------------------------------------------

\* what the operating system does during one run_single_gate call: the
\* availability probe, the install command, the gate's command
GateEnvs == [probe : ProbeEnds, install : ExecEnvs, exec : ExecEnvs]

check_tool_availability(gate_config, env) ==
  IF ~gate_config.check_available
    THEN Returned(TRUE, <<>>)
    ELSE check_tool_available(env.probe)

\* one call of the command executor, as the manager makes it: the command,
\* and whether a child process was spawned for it
ExecutorCall(cmd, r) == [cmd |-> cmd, spawned |-> r.spawned]

\* install_tool: its verdict, and the executor calls it made
install_tool(gate_config, env) ==
  IF ~gate_config.auto_install \/ gate_config.install_command = <<>>
    THEN [ok |-> FALSE, calls |-> <<>>]
  ELSE LET r == run_command(gate_config.install_command,
                            {"cwd", "timeout", "tool_name"}, 300, env.install)
       IN [ok |-> IF r.kind = "raise" THEN FALSE ELSE r.success,
           calls |-> <<ExecutorCall(gate_config.install_command, r)>>]

\* mutant: the predicate and the exit code must both agree
run_gate_command_and_exit_code(gate_name, gate_config, env) ==
  LET r == run_command(gate_config.command, {"cwd", "timeout"},
                       gate_config.timeout, env.exec)
      crit == success_criteria(gate_config.success_criteria, r.output)
      is_success == IF gate_config.success_criteria # "none" /\ ~crit.raised
                      THEN crit.value /\ r.success
                      ELSE r.success
      result ==
        IF r.kind = "return"
          THEN QualityGateResult(gate_name,
                                 IF is_success THEN "success" ELSE "failed",
                                 r.output, <<>>, gate_config.command)
          ELSE QualityGateResult(gate_name, "failed", <<>>, r.msg, <<>>)
  IN [result |-> result, calls |-> <<ExecutorCall(gate_config.command, r)>>]

\* the try block of run_single_gate and its handlers: the gate's result,
\* and the executor calls made
run_gate_command(gate_name, gate_config, env) ==
  LET r == run_command(gate_config.command, {"cwd", "timeout"},
                       gate_config.timeout, env.exec)
      crit == success_criteria(gate_config.success_criteria, r.output)
      is_success == IF gate_config.success_criteria # "none" /\ ~crit.raised
                      THEN crit.value
                      ELSE r.success
      result ==
        IF r.kind = "return"
          THEN QualityGateResult(gate_name,
                                 IF is_success THEN "success" ELSE "failed",
                                 r.output, <<>>, gate_config.command)
        ELSE IF IsInstance(r.exc, "ToolExecutionError")
          THEN QualityGateResult(gate_name,
                                 IF Contains(Lower(r.msg), <<"timed", "out">>)
                                   THEN "timeout" ELSE "failed",
                                 <<>>, r.msg, <<>>)
        ELSE QualityGateResult(gate_name, "failed", <<>>,
                               <<"Unexpected", "error:">> \o r.msg, <<>>)
  IN [result |-> result, calls |-> <<ExecutorCall(gate_config.command, r)>>]

\* run_single_gate returns a result
SingleGateReturns(result, gate_calls) ==
  [kind |-> "return", exc |-> "none", result |-> result, calls |-> gate_calls]

\* run_single_gate lets an exception through; there is no result
SingleGateRaises(exc, gate_calls) ==
  [kind |-> "raise", exc |-> exc,
   result |-> [tool_name |-> "", status |-> "none", output |-> <<>>,
               error |-> <<>>, metadata |-> <<>>],
   calls |-> gate_calls]

\* mutant: an unavailable tool whose install is not possible is reported
\* Failed, after its command was tried all the same
run_single_gate_tries_anyway(gate_name, gate_config, env) ==
  LET run == run_gate_command(gate_name, gate_config, env)
  IN SingleGateReturns(run.result, run.calls)

\* run_single_gate: the gate's result or the exception it lets through,
\* and the executor calls made
run_single_gate(gate_name, gate_config, env) ==
  LET avail == check_tool_availability(gate_config, env)
      run == run_gate_command(gate_name, gate_config, env)
  IN IF avail.kind = "raise" THEN SingleGateRaises(avail.exc, <<>>)
     ELSE IF ~avail.success
       THEN IF gate_config.auto_install
              THEN LET inst == install_tool(gate_config, env)
                   IN IF ~inst.ok
                        THEN SingleGateReturns(
                               QualityGateResult(gate_name, "skipped", <<>>,
                                 <<"Failed", "to", "install", gate_name>>, <<>>),
                               inst.calls)
                        ELSE SingleGateReturns(run.result, inst.calls \o run.calls)
              ELSE SingleGateReturns(
                     QualityGateResult(gate_name, "skipped", <<>>,
                       <<"Tool", gate_name, "not", "available", "and",
                         "auto_install", "disabled">>, <<>>),
                     <<>>)
     ELSE SingleGateReturns(run.result, run.calls)

\* ------------------------------------------------------------------------
\* Summary (QualityGateManager.get_summary)
\* ------------------------------------------------------------------------

CountStatus(res, status) ==
  Cardinality({ i \in 1..Len(res) : res[i].val.status = status })

\* mutant: the run may proceed only when no gate did anything but succeed
get_summary_all_must_pass(res) ==
  LET total == Len(res)
      successful == CountStatus(res, "success")
  IN [total_gates |-> total,
      successful |-> successful,
      failed |-> CountStatus(res, "failed"),
      skipped |-> CountStatus(res, "skipped"),
      success_rate |-> IF total > 0 THEN <<successful * 100, total>> ELSE <<0, 1>>,
      can_proceed_to_ai |-> successful = total,
      results |-> [i \in 1..Len(res) |->
                    [key |-> res[i].key,
                     val |-> [status |-> res[i].val.status,
                              error |-> res[i].val.error]]]]

get_summary(res) ==
  LET total == Len(res)
      successful == CountStatus(res, "success")
  IN [total_gates |-> total,
      successful |-> successful,
      failed |-> CountStatus(res, "failed"),
      skipped |-> CountStatus(res, "skipped"),
      \* successful / total * 100, kept as the pair it is computed from
      success_rate |-> IF total > 0 THEN <<successful * 100, total>> ELSE <<0, 1>>,
      can_proceed_to_ai |-> successful > 0,
      results |-> [i \in 1..Len(res) |->
                    [key |-> res[i].key,
                     val |-> [status |-> res[i].val.status,
                              error |-> res[i].val.error]]]]

\* ------------------------------------------------------------------------
\* Runners (core/enhanced_runner.py, core/runner.py)
\* ------------------------------------------------------------------------

\* the fixed order of the strict and legacy runs
LegacyOrder == <<"formatter", "linter", "security", "tests">>

\* what the operating system does during one gate function of a runner:
\* the gate's command, and whether the project holds Python files
RunnerEnvs == [exec : ExecEnvs, py_files : BOOLEAN]

\* self.config.get("tools", {}).get(tool_name, {})
ToolConfigOf(cfg, tool_name) ==
  IF Has(cfg, tool_name) THEN Get(cfg, tool_name)
  ELSE [enabled |-> "unset", has_args |-> FALSE, args |-> <<>>]

is_tool_enabled(cfg, tool_name) == EnabledOrDefault(ToolConfigOf(cfg, tool_name))

\* tool_config.get("args", default)
ArgsOr(tool_config, default) ==
  IF tool_config.has_args THEN tool_config.args ELSE default

\* _run_formatter, _run_linter, _run_security, _run_tests: the outcome of
\* the gate function (a return or a raise), and the executor calls made
gate_func(cfg, gate_name, env) ==
  LET tc == ToolConfigOf(cfg, gate_name)
      cmd == CASE gate_name = "formatter" ->
                    <<"black">> \o ArgsOr(tc, <<"--check", "--diff">>) \o <<"/project">>
               [] gate_name = "linter" ->
                    <<"pylint">> \o ArgsOr(tc, <<"--output-format=text", "--score=no">>)
                                \o <<"/project/main.py">>
               [] gate_name = "security" ->
                    <<"bandit">> \o ArgsOr(tc, <<"-r", ".", "-f", "json">>)
               [] OTHER ->
                    <<"pytest">> \o ArgsOr(tc, <<"--cov", "--cov-report=term-missing", "-v">>)
      r == run_command(cmd, {"cwd"}, 300, env.exec)
  IN IF gate_name = "linter" /\ ~env.py_files
       THEN [outcome |-> Returned(TRUE, <<"No", "Python", "files", "found", "to", "lint">>),
             calls |-> <<>>]
       ELSE [outcome |-> r, calls |-> <<ExecutorCall(cmd, r)>>]

\* the entry the legacy loop stores for a gate function's outcome
legacy_entry(outcome) ==
  IF outcome.kind = "return"
    THEN [success |-> outcome.success, output |-> outcome.output, enabled |-> TRUE]
    ELSE [success |-> FALSE, output |-> <<"Error:">> \o outcome.msg, enabled |-> TRUE]

\* mutant: only a Failed gate is recorded as not successful
progressive_entry_skipped_passes(result) ==
  [success |-> result.status # "failed", output |-> result.output,
   error |-> result.error, status |-> result.status, enabled |-> TRUE]

\* the legacy-format entry run_quality_gates builds from a gate result
progressive_entry(result) ==
  [success |-> result.status = "success", output |-> result.output,
   error |-> result.error, status |-> result.status, enabled |-> TRUE]

\* the conversion loop of run_quality_gates (progressive)
to_legacy_format(gate_results) ==
  [i \in 1..Len(gate_results) |->
     [key |-> gate_results[i].key, val |-> progressive_entry(gate_results[i].val)]]

\* mutant: the gates are taken in the order of gate_names
legacy_gates_as_named(gate_names) ==
  IF gate_names # <<>>
    THEN SelectSeq(gate_names, LAMBDA n : n \in Range(LegacyOrder))
    ELSE LegacyOrder

\* [(name, func) for name, func in gates if name in gate_names]
legacy_gates(gate_names) ==
  IF gate_names # <<>>
    THEN SelectSeq(LegacyOrder, LAMBDA n : n \in Range(gate_names))
    ELSE LegacyOrder

get_failed_tools(res) ==
  SelectSeq(Keys(res), LAMBDA n : ~Get(res, n).success)

all_tools_passed(res) == get_failed_tools(res) = <<>>

\* EnhancedToolRunner.can_proceed_to_ai_review: the runner always has a
\* quality_gate_manager attribute
can_proceed_to_ai_review(mres, res) == get_summary(mres).can_proceed_to_ai

\* QualityGateManager.get_ai_context, to which the runner's delegates
get_ai_context(mres) ==
  LET succeeded == SelectSeq(mres, LAMBDA e : e.val.status = "success")
      failed == SelectSeq(mres, LAMBDA e : e.val.status = "failed")
      skipped == SelectSeq(mres, LAMBDA e : e.val.status = "skipped")
  IN [available_results |->
        [i \in 1..Len(succeeded) |->
           [key |-> succeeded[i].key, val |-> [output |-> succeeded[i].val.output]]],
      failed_gates |->
        [i \in 1..Len(failed) |->
           [name |-> failed[i].key, error |-> failed[i].val.error,
            output |-> failed[i].val.output]],
      skipped_gates |->
        [i \in 1..Len(skipped) |->
           [name |-> skipped[i].key, reason |-> skipped[i].val.error]]]

get_failed_gates(res) == SelectSeq(Keys(res), LAMBDA n : ~Get(res, n).success)

get_successful_gates(res) == SelectSeq(Keys(res), LAMBDA n : Get(res, n).success)

\* the suggestion get_recovery_suggestions has for a failed gate
suggestion(gate_name) ==
  CASE gate_name = "formatter" ->
         [gate |-> gate_name, command |-> <<"black", ".">>, priority |-> "high"]
    [] gate_name = "linter" ->
         [gate |-> gate_name, command |-> <<"pylint", ".">>, priority |-> "medium"]
    [] gate_name = "security" ->
         [gate |-> gate_name, command |-> <<"bandit", "-r", ".">>, priority |-> "high"]
    [] OTHER ->
         [gate |-> gate_name, command |-> <<"pytest", "-v">>, priority |-> "medium"]

\* mutant: a suggestion for every gate, failed or not
get_recovery_suggestions_for_all(res) ==
  [i \in 1..Len(res) |-> suggestion(res[i].key)]

get_recovery_suggestions(res) ==
  LET failed == SelectSeq(get_failed_gates(res), LAMBDA n : n \in Range(LegacyOrder))
  IN [i \in 1..Len(failed) |-> suggestion(failed[i])]

\* the consumers of the result sets
QueryNames ==
  {"get_summary", "get_ai_context", "get_failed_gates", "get_successful_gates",
   "get_recovery_suggestions"}

query_output(query, mres, res) ==
  CASE query = "get_summary" -> get_summary(mres)
    [] query = "get_ai_context" -> get_ai_context(mres)
    [] query = "get_failed_gates" -> get_failed_gates(res)
    [] query = "get_successful_gates" -> get_successful_gates(res)
    [] OTHER -> get_recovery_suggestions(res)

\* mutant: get_ai_context hands over the results and forgets them
manager_results_after_consuming(query, mres) ==
  IF query = "get_ai_context" THEN <<>> ELSE mres

\* QualityGateManager.results after a consumer ran: no consumer assigns to
\* self.results or to a field of a result
manager_results_after(query, mres) == mres

\* EnhancedToolRunner.results after a consumer ran
results_after(query, res) == res

\* ------------------------------------------------------------------------
\* AI review client (ai/gemini_client.py)
\* ------------------------------------------------------------------------

\* what the AI tool prints: plain text, or a JSON document
AiOutputs == { <<"LGTM">>, <<"{\"score\":9}">> }

\* json.loads: the parsed value, or JSONDecodeError
json_loads(output) ==
  IF output = <<"{\"score\":9}">>
    THEN [ok |-> TRUE, value |-> [score |-> 9]]
    ELSE [ok |-> FALSE, value |-> [score |-> 0]]

\* json.dumps(parsed, indent=2): one token per line
json_dumps(value) == <<"{", "\"score\":", ToString(value.score), "}">>

\* what the operating system does during one attempt: whether the temp
\* file can be created ("oserror" if not) and written ("write_fails" if
\* not), what becomes of the gemini command, and whether the unlink of the
\* temp file succeeds
NoSpawn == [which |-> FALSE, proc |-> "exit0", out |-> <<>>]

AttemptEnvs ==
  { [temp |-> "oserror", exec |-> NoSpawn, unlink |-> "ok"] }
  \cup [temp : {"write_fails"}, exec : {NoSpawn}, unlink : {"ok", "fails"}]
  \cup [temp : {"ok"},
        exec : { NoSpawn }
                 \cup [which : {TRUE}, proc : {"timeout", "oserror"}, out : {<<>>}]
                 \cup [which : {TRUE}, proc : {"exit0", "exitN"}, out : AiOutputs],
        unlink : {"ok", "fails"}]

\* the finally block of _safe_temp_file: the temp files still on disk once
\* the with block is left
safe_temp_file_exit(created, unlink) ==
  IF created /\ unlink = "fails" THEN 1 ELSE 0

\* an exception object: its class, its message, and its __cause__ (empty,
\* or the one exception it was raised from)
Error(cls, msg, cause) == [cls |-> cls, msg |-> msg, cause |-> cause]

review_cmd == <<"gemini", "review", "--input", "tmp.json", "--format", "json">>

\* the body of one iteration of the retry loop: what it returns or the
\* exception it raises, the temp files it created, those it left on disk,
\* the executor calls made
attempt_body(env) ==
  IF env.temp = "oserror"
    THEN [kind |-> "error",
          error |-> Error("OSError", <<"No", "space", "left", "on", "device">>, <<>>),
          output |-> <<>>, temp_files |-> 0,
          left |-> safe_temp_file_exit(FALSE, env.unlink), calls |-> <<>>]
  ELSE IF env.temp = "write_fails"
    THEN [kind |-> "error",
          error |-> Error("OSError", <<"No", "space", "left", "on", "device">>, <<>>),
          output |-> <<>>, temp_files |-> 1,
          left |-> safe_temp_file_exit(TRUE, env.unlink), calls |-> <<>>]
  ELSE LET r == run_command(review_cmd, {"cwd", "timeout"}, 120, env.exec)
           parsed == json_loads(r.output)
       IN IF r.kind = "raise"
            THEN [kind |-> "error", error |-> Error(r.exc, r.msg, <<>>),
                  output |-> <<>>, temp_files |-> 1,
                  left |-> safe_temp_file_exit(TRUE, env.unlink),
                  calls |-> <<ExecutorCall(review_cmd, r)>>]
          ELSE IF ~r.success
            THEN [kind |-> "error",
                  error |-> Error("AIReviewError",
                                  <<"Gemini", "CLI", "failed:">> \o r.output, <<>>),
                  output |-> <<>>, temp_files |-> 1,
                  left |-> safe_temp_file_exit(TRUE, env.unlink),
                  calls |-> <<ExecutorCall(review_cmd, r)>>]
          ELSE [kind |-> "return", error |-> Error("none", <<>>, <<>>),
                output |-> IF parsed.ok THEN json_dumps(parsed.value) ELSE r.output,
                temp_files |-> 1,
                left |-> safe_temp_file_exit(TRUE, env.unlink),
                calls |-> <<ExecutorCall(review_cmd, r)>>]

\* mutant: one more try after the last
after_failure_keeps_trying(attempt, max_retries) ==
  IF attempt < max_retries THEN "retry" ELSE "break"

\* the except block of the retry loop: sleep and go on to the next
\* iteration, or break
after_failure(attempt, max_retries) ==
  IF attempt < max_retries - 1 THEN "retry" ELSE "break"

\* what is raised once all retries failed
all_retries_failed(last_error, max_retries) ==
  IF IsInstance(last_error.cls, "AIReviewError")
    THEN last_error
    ELSE Error("AIReviewError",
               <<"Failed", "to", "run", "AI", "review", "after",
                 ToString(max_retries), "attempts:">> \o last_error.msg,
               <<last_error>>)

\* mutant: the availability check comes first
run_review_entry_probes_first(dry_run, probe, ai_enabled) ==
  LET available == check_tool_available(probe)
  IN IF available.kind = "raise" THEN [branch |-> "probe_raises", probes |-> 1]
     ELSE IF ~available.success THEN [branch |-> "unavailable", probes |-> 1]
     ELSE IF dry_run THEN [branch |-> "dry_run", probes |-> 1]
     ELSE IF ~ai_enabled THEN [branch |-> "disabled", probes |-> 1]
     ELSE [branch |-> "attempt", probes |-> 1]

\* mutant: the configuration is looked at before the availability check
run_review_entry_config_first(dry_run, probe, ai_enabled) ==
  LET available == check_tool_available(probe)
  IN IF dry_run THEN [branch |-> "dry_run", probes |-> 0]
     ELSE IF ~ai_enabled THEN [branch |-> "disabled", probes |-> 0]
     ELSE IF available.kind = "raise" THEN [branch |-> "probe_raises", probes |-> 1]
     ELSE IF ~available.success THEN [branch |-> "unavailable", probes |-> 1]
     ELSE [branch |-> "attempt", probes |-> 1]

\* mutant: ai.enabled is never looked at
run_review_entry_ignores_enabled(dry_run, probe, ai_enabled) ==
  LET available == check_tool_available(probe)
  IN IF dry_run THEN [branch |-> "dry_run", probes |-> 0]
     ELSE IF available.kind = "raise" THEN [branch |-> "probe_raises", probes |-> 1]
     ELSE IF ~available.success THEN [branch |-> "unavailable", probes |-> 1]
     ELSE [branch |-> "attempt", probes |-> 1]

\* the checks run_review makes before the retry loop: the branch taken, and
\* the availability checks made
run_review_entry(dry_run, probe, ai_enabled) ==
  LET available == check_tool_available(probe)
  IN IF dry_run THEN [branch |-> "dry_run", probes |-> 0]
     ELSE IF available.kind = "raise" THEN [branch |-> "probe_raises", probes |-> 1]
     ELSE IF ~available.success THEN [branch |-> "unavailable", probes |-> 1]
     ELSE IF ~ai_enabled THEN [branch |-> "disabled", probes |-> 1]
     ELSE [branch |-> "attempt", probes |-> 1]

\* no client constructed, no run_review call made
NoClient == [dry_run |-> FALSE, max_retries |-> 0, retry_delay |-> 0, reviews |-> 0]

NoReview == [pc |-> "none"]

\* ------------------------------------------------------------------------
\* Git diff (utils/git.py) and AI context (GeminiClient._prepare_context).
\* Here a text is a sequence of characters; a literal of the code is kept
\* as one element
\* ------------------------------------------------------------------------

\* output[:500], git_diff[:2000], test_output[:1000]
OutputLimit == 500

DiffLimit == 2000

TestOutputLimit == 1000

\* a text of n characters
Chars(n) == [i \in 1..n |-> IF i % 2 = 1 THEN "a" ELSE "b"]

\* not s.strip()
IsBlank(s) == \A i \in 1..Len(s) : s[i] \in {" ", "\n"}

\* what git may print
DiffTexts == { <<>>, <<"\n">>, Chars(2), Chars(DiffLimit), Chars(DiffLimit + 1) }

\* what becomes of one git command: how the child process ends and what
\* it prints on stdout
GitEnds ==
  [proc : {"timeout", "fnf", "oserror"}, out : {<<>>}]
  \cup [proc : {"exit0", "exitN"}, out : DiffTexts]

\* whether the project has a .git entry, and what becomes of
\* git diff --cached and of git diff
GitEnvs == [repo : BOOLEAN, staged : GitEnds, unstaged : GitEnds]

\* what get_git_diff gives: None, a text, or an exception; with the git
\* commands it spawned
GitNone(spawned) ==
  [kind |-> "return", none |-> TRUE, diff |-> <<>>, exc |-> "none",
   msg |-> <<>>, spawned |-> spawned]

GitReturns(diff, spawned) ==
  [kind |-> "return", none |-> FALSE, diff |-> diff, exc |-> "none",
   msg |-> <<>>, spawned |-> spawned]

\* the except clauses of get_git_diff
git_error(end, spawned) ==
  [kind |-> "raise", none |-> FALSE, diff |-> <<>>, exc |-> "ToolExecutionError",
   msg |-> CASE end.proc = "timeout" -> <<"Git diff command timed out">>
             [] end.proc = "fnf" -> <<"Git not found">>
             [] OTHER -> <<"Git diff failed: ", "Exec format error">>,
   spawned |-> spawned]

\* if result.returncode == 0: return result.stdout if result.stdout.strip()
\* else None; and the return None that ends the function
git_final(end, spawned) ==
  IF end.proc = "exit0" /\ ~IsBlank(end.out)
    THEN GitReturns(end.out, spawned)
    ELSE GitNone(spawned)

\* GitManager.get_git_diff
get_git_diff(staged_only, env) ==
  LET staged == <<"git diff --cached">>
      both == <<"git diff --cached", "git diff">>
  IN IF ~env.repo THEN GitNone(<<>>)
     ELSE IF env.staged.proc \notin {"exit0", "exitN"}
       THEN git_error(env.staged, staged)
     ELSE IF staged_only THEN git_final(env.staged, staged)
     ELSE IF env.staged.proc = "exit0" /\ ~IsBlank(env.staged.out)
       THEN GitReturns(env.staged.out, staged)
     ELSE IF env.unstaged.proc \notin {"exit0", "exitN"}
       THEN git_error(env.unstaged, both)
     ELSE git_final(env.unstaged, both)

\* str.upper() on a gate name
upper(tool_name) ==
  CASE tool_name = "formatter" -> "FORMATTER"
    [] tool_name = "linter" -> "LINTER"
    [] tool_name = "security" -> "SECURITY"
    [] tool_name = "tests" -> "TESTS"

\* mutant: the last characters are kept
truncated_keeps_tail(text, limit, marker) ==
  IF Len(text) > limit
    THEN SubSeq(text, Len(text) - limit + 1, Len(text)) \o marker
    ELSE text

\* text[:limit] + marker when the text is longer than limit
truncated(text, limit, marker) ==
  IF Len(text) > limit THEN SubSeq(text, 1, limit) \o marker ELSE text

\* the lines the loop over tool_results appends for one gate
gate_block(tool_name, result) ==
  << <<upper(tool_name), ": ", IF result.success THEN "PASSED" ELSE "FAILED">> >>
  \o (IF result.output # <<>>
        THEN << <<"Output: ">> \o truncated(result.output, OutputLimit, <<"...">>) >>
        ELSE <<>>)
  \o << <<>> >>

RECURSIVE gate_blocks(_)
gate_blocks(tool_results) ==
  IF tool_results = <<>> THEN <<>>
  ELSE gate_block(Head(tool_results).key, Head(tool_results).val)
       \o gate_blocks(Tail(tool_results))

\* config.get("ai", {}).get("context", {}).get(key, True)
context_flag(context_config, key) ==
  IF Has(context_config, key) THEN Get(context_config, key) ELSE TRUE

\* mutant: the failure of get_git_diff is not caught
diff_section_raises(context_config, git_diff) ==
  IF context_flag(context_config, "include_git_diff") /\ git_diff.kind = "raise"
    THEN [kind |-> "raise", exc |-> git_diff.exc, parts |-> <<>>]
  ELSE IF /\ context_flag(context_config, "include_git_diff")
          /\ git_diff.kind = "return" /\ ~git_diff.none /\ git_diff.diff # <<>>
    THEN [kind |-> "return", exc |-> "none",
          parts |-> << <<"# Recent Changes (Git Diff)">>,
                       truncated(git_diff.diff, DiffLimit, <<"\n", "... (truncated)">>),
                       <<>> >>]
    ELSE [kind |-> "return", exc |-> "none", parts |-> <<>>]

\* the git diff section: its lines, or the exception that leaves
\* _prepare_context; a failure of get_git_diff is passed over
diff_section(context_config, git_diff) ==
  IF /\ context_flag(context_config, "include_git_diff")
     /\ git_diff.kind = "return" /\ ~git_diff.none /\ git_diff.diff # <<>>
    THEN [kind |-> "return", exc |-> "none",
          parts |-> << <<"# Recent Changes (Git Diff)">>,
                       truncated(git_diff.diff, DiffLimit, <<"\n", "... (truncated)">>),
                       <<>> >>]
    ELSE [kind |-> "return", exc |-> "none", parts |-> <<>>]

\* the test results section
test_section(tool_results, context_config) ==
  LET test_output == IF Has(tool_results, "tests")
                       THEN Get(tool_results, "tests").output ELSE <<>>
  IN IF context_flag(context_config, "include_test_results") /\ test_output # <<>>
       THEN << <<"# Test Results">>,
               truncated(test_output, TestOutputLimit, <<"...">>),
               <<>> >>
       ELSE <<>>

ReviewInstructions ==
  << <<"# Review Instructions">>,
     <<"Please provide a focused code review covering:">>,
     <<"- Architecture and design patterns">>,
     <<"- Code readability and maintainability">>,
     <<"- Potential edge cases or bugs">>,
     <<"- Performance considerations">>,
     <<"- Security implications">>,
     <<>>,
     <<"Focus on high-value feedback since basic quality issues">>,
     <<"have already been caught by the automated tools.">> >>

\* mutant: the test results come before the diff
context_parts_tests_first(tool_results, context_config, diff_parts) ==
  << <<"# Project Context">>, <<"Project Path: ", "project">>, <<>>,
     <<"# Quality Gate Results">> >>
  \o gate_blocks(tool_results)
  \o test_section(tool_results, context_config)
  \o diff_parts
  \o ReviewInstructions

\* context_parts as _prepare_context builds it, given the lines of the git
\* diff section
context_parts(tool_results, context_config, diff_parts) ==
  << <<"# Project Context">>, <<"Project Path: ", "project">>, <<>>,
     <<"# Quality Gate Results">> >>
  \o gate_blocks(tool_results)
  \o diff_parts
  \o test_section(tool_results, context_config)
  \o ReviewInstructions

\* "\n".join(parts)
RECURSIVE join(_)
join(parts) ==
  IF parts = <<>> THEN <<>>
  ELSE IF Len(parts) = 1 THEN parts[1]
  ELSE parts[1] \o <<"\n">> \o join(Tail(parts))

\* GeminiClient._prepare_context: the text it returns (and the lines joined
\* into it) or the exception it raises, and the git commands spawned
prepare_context(tool_results, context_config, git_env) ==
  LET wanted == context_flag(context_config, "include_git_diff")
      git_diff == IF wanted THEN get_git_diff(FALSE, git_env) ELSE GitNone(<<>>)
      section == diff_section(context_config, git_diff)
      parts == context_parts(tool_results, context_config, section.parts)
  IN IF section.kind = "raise"
       THEN [kind |-> "raise", exc |-> section.exc, parts |-> <<>>,
             context |-> <<>>, spawned |-> git_diff.spawned]
       ELSE [kind |-> "return", exc |-> "none", parts |-> parts,
             context |-> join(parts), spawned |-> git_diff.spawned]

\* ------------------------------------------------------------------------
\* Configuration documents (cli.py): a value is a dict, with its items, or
\* something else (a scalar, a list, None)
\* ------------------------------------------------------------------------

Dict(items) == [dict |-> TRUE, items |-> items, scalar |-> ""]

Scalar(x) == [dict |-> FALSE, items |-> <<>>, scalar |-> x]

\* mutant: the project type is looked at before the sections
validate_configuration_type_first(config) ==
  LET missing == SelectSeq(<<"project", "tools", "ai">>, LAMBDA x : ~Has(config, x))
  IN IF ~Has(config, "project")
       THEN [kind |-> "raise", exc |-> "KeyError", msg |-> <<"project">>]
     ELSE IF ~Get(config, "project").dict
       THEN [kind |-> "raise", exc |-> "TypeError", msg |-> <<"not subscriptable">>]
     ELSE IF ~Has(Get(config, "project").items, "type")
       THEN [kind |-> "raise", exc |-> "KeyError", msg |-> <<"type">>]
     ELSE IF Get(Get(config, "project").items, "type") # Scalar("python")
       THEN [kind |-> "raise", exc |-> "ConfigurationError",
             msg |-> <<"Unsupported project type: ",
                       Get(Get(config, "project").items, "type").scalar>>]
     ELSE IF missing # <<>>
       THEN [kind |-> "raise", exc |-> "ConfigurationError",
             msg |-> <<"Missing required configuration section: ", Head(missing)>>]
     ELSE [kind |-> "return", exc |-> "none", msg |-> <<>>]

\* validate_configuration: it returns, or the exception it raises
validate_configuration(config) ==
  LET missing == SelectSeq(<<"project", "tools", "ai">>, LAMBDA x : ~Has(config, x))
  IN IF missing # <<>>
       THEN [kind |-> "raise", exc |-> "ConfigurationError",
             msg |-> <<"Missing required configuration section: ", Head(missing)>>]
     ELSE IF ~Get(config, "project").dict
       THEN [kind |-> "raise", exc |-> "TypeError", msg |-> <<"not subscriptable">>]
     ELSE IF ~Has(Get(config, "project").items, "type")
       THEN [kind |-> "raise", exc |-> "KeyError", msg |-> <<"type">>]
     ELSE IF Get(Get(config, "project").items, "type") # Scalar("python")
       THEN [kind |-> "raise", exc |-> "ConfigurationError",
             msg |-> <<"Unsupported project type: ",
                       Get(Get(config, "project").items, "type").scalar>>]
     ELSE [kind |-> "return", exc |-> "none", msg |-> <<>>]

RECURSIVE merge_configs(_, _)
RECURSIVE merge_items(_, _, _)

\* the loop of merge_configs over override.items(): result is the copy
\* being filled, default_after the dict that was passed as default
merge_items(result, default_after, todo_items) ==
  IF todo_items = <<>> THEN [result |-> result, default_after |-> default_after]
  ELSE LET key == Head(todo_items).key
           value == Head(todo_items).val
       IN IF Has(result, key) /\ Get(result, key).dict /\ value.dict
            THEN LET merged == merge_configs(Get(result, key).items, value.items)
                 IN merge_items(Put(result, key, Dict(merged.result)),
                                Put(default_after, key, Dict(merged.default_after)),
                                Tail(todo_items))
            ELSE merge_items(Put(result, key, value), default_after,
                             Tail(todo_items))

\* mutant: dict.update, the override's values replace the default's
merge_configs_shallow(default, override) ==
  LET RECURSIVE update(_, _)
      update(result, todo_items) ==
        IF todo_items = <<>> THEN result
        ELSE update(Put(result, Head(todo_items).key, Head(todo_items).val),
                    Tail(todo_items))
  IN [result |-> update(default, override), default_after |-> default]

\* merge_configs: the dict returned, and what the default argument holds
\* afterwards
merge_configs(default, override) == merge_items(default, default, override)

\* ------------------------------------------------------------------------
\* State
\* ------------------------------------------------------------------------

VARIABLES
  tools_config,         \* ConfigLoader.config["tools"], as _load_config read it
  gates,                \* QualityGateManager.gates
  manager_results,      \* QualityGateManager.results
  runner_config,        \* the tools section of the config given to a runner
  results,              \* EnhancedToolRunner.results
  tool_runner_results,  \* ToolRunner.results
  pc,                   \* the call in progress, "idle" between calls
  call,                 \* the call in progress or last made; gate_names is
                        \* kept for a direct run_all_gates call only
  todo,                 \* the gates the loop in progress has still to visit
  returned,             \* what the call returned, empty while it is in progress
  started,              \* the gates the call in progress or last made has
                        \* run, in the order it ran them
  calls,                \* the executor calls of the last direct run_single_gate
  last,                 \* the last direct run_single_gate call
  runs,                 \* the number of run_quality_gates calls so far
  client,               \* GeminiClient: dry_run, max_retries, retry_delay, and
                        \* the number of run_review calls so far
  review                \* the run_review call in progress or last made: its
                        \* inputs, attempts, sleeps, temp files, outcome

vars == <<tools_config, gates, manager_results, runner_config, results,
          tool_runner_results, pc, call, todo, returned, started, calls, last,
          runs, client, review>>

\* most gate names a caller passes as gate_names
MaxNames == 2

\* most run_quality_gates calls made on one ToolRunner
MaxRuns == 2

\* most run_quality_gates calls made on one EnhancedToolRunner
MaxEnhancedRuns == 1

RECURSIVE SeqsUpTo(_, _)
SeqsUpTo(S, n) ==
  IF n = 0 THEN { <<>> }
  ELSE LET shorter == SeqsUpTo(S, n - 1)
       IN shorter \cup { Append(q, x) : q \in shorter, x \in S }

\* the gate_names arguments; the empty list stands for None as well, both
\* being false in  gate_names or ...  and  if gate_names:
GateNameArgs == SeqsUpTo(ConfigNames, MaxNames)

Entry(name, enabled) ==
  [key |-> name, val |-> [enabled |-> enabled, has_args |-> FALSE, args |-> <<>>]]

EntryArgs(name, enabled, args) ==
  [key |-> name, val |-> [enabled |-> enabled, has_args |-> TRUE, args |-> args]]

\* the state after the objects are constructed from a loaded tools section
\* and a runner configuration
Constructed(doc, rdoc) ==
  /\ tools_config = doc
  /\ gates = get_quality_gate_configs(doc)
  /\ manager_results = <<>>
  /\ runner_config = rdoc
  /\ results = <<>>
  /\ tool_runner_results = <<>>
  /\ pc = "idle"
  /\ call = [op |-> "none"]
  /\ todo = <<>>
  /\ returned = <<>>
  /\ started = <<>>
  /\ calls = <<>>
  /\ last = [op |-> "none"]
  /\ runs = 0
  /\ client = NoClient
  /\ review = NoReview

\* ------------------------------------------------------------------------
\* Registry construction (ConfigLoader.__init__, QualityGateManager.__init__)
\* ------------------------------------------------------------------------

InitRegistry ==
  /\ tools_config \in ToolsDocs(MaxTools)
  /\ gates = <<>>
  /\ manager_results = <<>>
  /\ runner_config = <<>>
  /\ results = <<>>
  /\ tool_runner_results = <<>>
  /\ pc = "new"
  /\ call = [op |-> "none"]
  /\ todo = <<>>
  /\ returned = <<>>
  /\ started = <<>>
  /\ calls = <<>>
  /\ last = [op |-> "none"]
  /\ runs = 0
  /\ client = NoClient
  /\ review = NoReview

\* self.gates = self.config_loader.get_quality_gate_configs()
LoadGates ==
  /\ pc = "new"
  /\ gates' = get_quality_gate_configs(tools_config)
  /\ pc' = "idle"
  /\ UNCHANGED <<client, review, tools_config, manager_results, runner_config, results,
                 tool_runner_results, call, todo, returned, calls, last,
                 runs, started>>

NextRegistry == LoadGates

SpecRegistry == InitRegistry /\ [][NextRegistry]_vars

\* ------------------------------------------------------------------------
\* Direct calls of QualityGateManager.run_single_gate
\* ------------------------------------------------------------------------

\* the gate configurations a registry holds, for the one-entry tools sections
RegistryConfigs ==
  UNION { { get_quality_gate_configs(d)[i].val :
              i \in 1..Len(get_quality_gate_configs(d)) } : d \in ToolsDocs(1) }

\* the gate configurations a caller may pass: the defaults of a known gate
\* with any auto_install, install_command, check_available and predicate
GateConfigs ==
  { [QualityGateConfig(n, default_configs(n)) EXCEPT
       !.auto_install = a,
       !.install_command = IF ic THEN @ ELSE <<>>,
       !.check_available = ca,
       !.success_criteria = sc] :
    n \in KnownGates, a \in BOOLEAN, ic \in BOOLEAN, ca \in BOOLEAN,
    sc \in CriteriaKinds }
  \cup RegistryConfigs

\* a caller about to call run_single_gate with some configuration, in some
\* environment
InitGate ==
  /\ tools_config = <<>>
  /\ gates = <<>>
  /\ manager_results = <<>>
  /\ runner_config = <<>>
  /\ results = <<>>
  /\ tool_runner_results = <<>>
  /\ pc = "idle"
  /\ call = [op |-> "none"]
  /\ todo = <<>>
  /\ returned = <<>>
  /\ started = <<>>
  /\ calls = <<>>
  /\ \E gate_config \in GateConfigs, env \in GateEnvs :
       last = [op |-> "calling", gate_config |-> gate_config, env |-> env]
  /\ runs = 0
  /\ client = NoClient
  /\ review = NoReview

RunSingleGate ==
  /\ pc = "idle"
  /\ last.op = "calling"
  /\ LET r == run_single_gate(last.gate_config.name, last.gate_config, last.env)
     IN /\ last' = [op |-> "run_single_gate", gate_config |-> last.gate_config,
                    env |-> last.env, kind |-> r.kind, exc |-> r.exc,
                    result |-> r.result]
        /\ calls' = r.calls
  /\ UNCHANGED <<client, review, tools_config, gates, manager_results, runner_config,
                 results, tool_runner_results, pc, call, todo, returned,
                 runs, started>>

NextGate == RunSingleGate

SpecGate == InitGate /\ [][NextGate]_vars

\* ------------------------------------------------------------------------
\* The default formatter gate, over the outputs black may print
\* ------------------------------------------------------------------------

\* combined outputs of the formatter's command
FormatterOutputs ==
  { <<>>,
    <<"All", "done", "1", "file", "left", "unchanged">>,
    <<"Nothing", "to", "do">>,
    <<"Would", "reformat", "main.py">>,
    <<"would", "reformat", "main.py", "1", "file", "left", "unchanged">>,
    <<"reformatted", "main.py", "1", "file", "left", "unchanged">>,
    <<"error:", "cannot", "format", "main.py">> }

FormatterExecEnvs ==
  { [which |-> FALSE, proc |-> "exit0", out |-> <<>>] }
  \cup [which : {TRUE}, proc : {"timeout", "fnf", "oserror"}, out : {<<>>}]
  \cup [which : {TRUE}, proc : {"exit0", "exitN"}, out : FormatterOutputs]

\* a caller about to run the formatter gate of some registry
InitFormatter ==
  /\ tools_config = <<>>
  /\ gates = <<>>
  /\ manager_results = <<>>
  /\ runner_config = <<>>
  /\ results = <<>>
  /\ tool_runner_results = <<>>
  /\ pc = "idle"
  /\ call = [op |-> "none"]
  /\ todo = <<>>
  /\ returned = <<>>
  /\ started = <<>>
  /\ calls = <<>>
  /\ \E gate_config \in { c \in RegistryConfigs : c.name = "formatter" },
        probe \in ProbeEnds, install \in ExecEnvs, exec \in FormatterExecEnvs :
       last = [op |-> "calling", gate_config |-> gate_config,
               env |-> [probe |-> probe, install |-> install, exec |-> exec]]
  /\ runs = 0
  /\ client = NoClient
  /\ review = NoReview

SpecFormatter == InitFormatter /\ [][NextGate]_vars

\* ------------------------------------------------------------------------
\* Direct calls of run_command
\* ------------------------------------------------------------------------

\* the command vectors the program hands to the executor, and the empty one
ExecutorCmds ==
  { default_configs(n).command : n \in KnownGates }
  \cup { default_configs(n).install_command : n \in KnownGates }
  \cup { <<"gemini", "review", "--input", "tmp.json", "--format", "json">>,
         <<"black", ".">>, <<>> }

\* the keyword arguments the program's calls of run_command pass
ExecutorKwargs ==
  { {"cwd"}, {"cwd", "timeout"}, {"cwd", "timeout", "tool_name"} }

\* the timeouts the program's calls of run_command pass
ExecutorTimeouts == { default_configs(n).timeout : n \in KnownGates } \cup {300}

\* a caller about to call run_command, in some environment
InitExecutor ==
  /\ tools_config = <<>>
  /\ gates = <<>>
  /\ manager_results = <<>>
  /\ runner_config = <<>>
  /\ results = <<>>
  /\ tool_runner_results = <<>>
  /\ pc = "idle"
  /\ call = [op |-> "none"]
  /\ todo = <<>>
  /\ returned = <<>>
  /\ started = <<>>
  /\ calls = <<>>
  /\ \E cmd \in ExecutorCmds, kwargs \in ExecutorKwargs,
        timeout \in ExecutorTimeouts, env \in ExecEnvs :
       last = [op |-> "calling_executor", cmd |-> cmd, kwargs |-> kwargs,
               timeout |-> timeout, env |-> env]
  /\ runs = 0
  /\ client = NoClient
  /\ review = NoReview

RunCommand ==
  /\ pc = "idle"
  /\ last.op = "calling_executor"
  /\ LET r == run_command(last.cmd, last.kwargs, last.timeout, last.env)
     IN /\ last' = [op |-> "run_command", cmd |-> last.cmd,
                    kwargs |-> last.kwargs, timeout |-> last.timeout,
                    env |-> last.env, outcome |-> r]
        /\ calls' = <<ExecutorCall(last.cmd, r)>>
  /\ UNCHANGED <<client, review, tools_config, gates, manager_results, runner_config,
                 results, tool_runner_results, pc, call, todo, returned,
                 runs, started>>

NextExecutor == RunCommand

SpecExecutor == InitExecutor /\ [][NextExecutor]_vars

\* ------------------------------------------------------------------------
\* QualityGateManager.run_all_gates
\* ------------------------------------------------------------------------

\* the environments of a gate inside a run: the probe finds the tool or
\* does not; the install command is looked at only when it does not, and
\* then is missing, exits zero or exits non-zero
NoInstall == [which |-> FALSE, proc |-> "exit0", out |-> <<>>]

LoopGateEnvs ==
  { e \in GateEnvs :
      /\ e.probe \in {"exit0", "missing", "oserror"}
      /\ e.probe = "oserror" => (e.install = NoInstall /\ e.exec = NoInstall)
      /\ e.probe = "exit0" => e.install = NoInstall
      /\ e.install.proc \in {"exit0", "exitN"}
      /\ e.install.out \in {<<>>, <<"All", "done", "1", "file", "left", "unchanged">>} }

\* mutant: the names are taken as given, an empty list runs nothing
gates_to_run_as_given(registry, gate_names) == gate_names

\* gate_names or list(self.gates.keys())
gates_to_run(registry, gate_names) ==
  IF gate_names # <<>> THEN gate_names ELSE Keys(registry)

\* the gates the for loop still visits after recording a result: every
\* remaining one, whatever the result
gates_left(remaining, result) == Tail(remaining)

\* run_all_gates is entered; via tells a direct call from the call made by
\* EnhancedToolRunner.run_quality_gates
EnterRunAllGates(gate_names, via) ==
  /\ pc \in {"idle", "raised"}
  /\ pc' = "run_all_gates"
  /\ call' = [op |-> "run_all_gates", via |-> via,
              gate_names |-> IF via = "manager" THEN gate_names ELSE <<>>]
  /\ manager_results' = <<>>
  /\ todo' = gates_to_run(gates, gate_names)
  /\ started' = <<>>
  /\ returned' = <<>>

RunAllGates ==
  /\ \E gate_names \in GateNameArgs : EnterRunAllGates(gate_names, "manager")
  /\ UNCHANGED <<client, review, tools_config, gates, runner_config, results,
                 tool_runner_results, last, runs, calls>>

\* if gate_name not in self.gates: continue
GateNotRegistered ==
  /\ pc = "run_all_gates"
  /\ todo # <<>>
  /\ ~Has(gates, Head(todo))
  /\ todo' = Tail(todo)
  /\ UNCHANGED <<client, review, tools_config, gates, manager_results, runner_config,
                 results, tool_runner_results, pc, call, returned, started,
                 calls, last, runs>>

\* result = self.run_single_gate(...); self.results[gate_name] = result
GateStep ==
  /\ pc = "run_all_gates"
  /\ todo # <<>>
  /\ Has(gates, Head(todo))
  /\ \E env \in LoopGateEnvs :
       LET r == run_single_gate(Head(todo), Get(gates, Head(todo)), env)
       IN /\ r.kind = "return"
          /\ manager_results' = Put(manager_results, Head(todo), r.result)
          /\ started' = Append(started, Head(todo))
          /\ todo' = gates_left(todo, r.result)
  /\ UNCHANGED <<client, review, tools_config, gates, runner_config, results,
                 tool_runner_results, pc, call, returned, last, runs, calls>>

\* run_single_gate lets an exception through: nothing catches it in
\* run_all_gates or in run_quality_gates, the loop is abandoned and the
\* call ends without returning
GateStepRaises ==
  /\ pc = "run_all_gates"
  /\ todo # <<>>
  /\ Has(gates, Head(todo))
  /\ \E env \in LoopGateEnvs :
       run_single_gate(Head(todo), Get(gates, Head(todo)), env).kind = "raise"
  /\ started' = Append(started, Head(todo))
  /\ todo' = <<>>
  /\ pc' = "raised"
  /\ UNCHANGED <<client, review, tools_config, gates, manager_results, runner_config,
                 results, tool_runner_results, call, returned, last, runs,
                 calls>>

\* return self.results, to a direct caller
ReturnAllGates ==
  /\ pc = "run_all_gates"
  /\ todo = <<>>
  /\ call.via = "manager"
  /\ pc' = "idle"
  /\ returned' = manager_results
  /\ UNCHANGED <<client, review, tools_config, gates, manager_results, runner_config,
                 results, tool_runner_results, call, todo, started, calls,
                 last, runs>>

\* the tools sections the manager is constructed from
ManagerDocs ==
  { <<>>,
    <<Entry("formatter", "true"), Entry("linter", "false")>>,
    <<Entry("formatter", "true"), Entry("linter", "true"),
      Entry("security", "true"), Entry("tests", "true")>>,
    <<EntryArgs("tests", "unset", <<"--quiet">>), Entry("typecheck", "true"),
      Entry("security", "false"), Entry("formatter", "unset")>> }

InitManager == \E doc \in ManagerDocs : Constructed(doc, <<>>)

NextManager ==
  \/ RunAllGates
  \/ GateNotRegistered
  \/ GateStep
  \/ GateStepRaises
  \/ ReturnAllGates

SpecManager == InitManager /\ [][NextManager]_vars

\* ------------------------------------------------------------------------
\* EnhancedToolRunner.run_quality_gates
\* ------------------------------------------------------------------------

\* run_quality_gates(gate_names, progressive=True) calls run_all_gates
RunProgressive ==
  /\ runs < MaxEnhancedRuns
  /\ runs' = runs + 1
  /\ \E gate_names \in GateNameArgs : EnterRunAllGates(gate_names, "runner")
  /\ UNCHANGED <<client, review, tools_config, gates, runner_config, results,
                 tool_runner_results, last, calls>>

\* run_all_gates has returned: the results are converted to the legacy
\* format in a fresh dict, and returned
ProgressiveReturn ==
  /\ pc = "run_all_gates"
  /\ todo = <<>>
  /\ call.via = "runner"
  /\ pc' = "idle"
  /\ results' = to_legacy_format(manager_results)
  /\ returned' = to_legacy_format(manager_results)
  /\ UNCHANGED <<client, review, tools_config, gates, manager_results, runner_config,
                 tool_runner_results, call, todo, started, calls, last, runs>>

\* run_quality_gates(gate_names, progressive=False) enters
\* _run_legacy_quality_gates, which writes into self.results as it is
RunLegacy ==
  /\ pc \in {"idle", "raised"}
  /\ runs < MaxEnhancedRuns
  /\ runs' = runs + 1
  /\ call' = [op |-> "legacy", via |-> "runner", gate_names |-> <<>>]
  /\ \E gate_names \in GateNameArgs : todo' = legacy_gates(gate_names)
  /\ pc' = "legacy"
  /\ started' = <<>>
  /\ returned' = <<>>
  /\ UNCHANGED <<client, review, tools_config, gates, manager_results, runner_config,
                 results, tool_runner_results, last, calls>>

\* if not self._is_tool_enabled(gate_name): continue
LegacyDisabled ==
  /\ pc = "legacy"
  /\ todo # <<>>
  /\ ~is_tool_enabled(runner_config, Head(todo))
  /\ todo' = Tail(todo)
  /\ UNCHANGED <<client, review, tools_config, gates, manager_results, runner_config,
                 results, tool_runner_results, pc, call, returned, started,
                 calls, last, runs>>

\* the gate function ran and the gate passed: the loop goes on
LegacyPass ==
  /\ pc = "legacy"
  /\ todo # <<>>
  /\ is_tool_enabled(runner_config, Head(todo))
  /\ \E env \in RunnerEnvs :
       LET r == gate_func(runner_config, Head(todo), env)
           entry == legacy_entry(r.outcome)
       IN /\ entry.success
          /\ results' = Put(results, Head(todo), entry)
          /\ started' = Append(started, Head(todo))
  /\ todo' = Tail(todo)
  /\ UNCHANGED <<client, review, tools_config, gates, manager_results, runner_config,
                 tool_runner_results, pc, call, returned, last, runs, calls>>

\* the gate function returned failure or raised: the entry is stored and
\* self.results is returned at once
LegacyFail ==
  /\ pc = "legacy"
  /\ todo # <<>>
  /\ is_tool_enabled(runner_config, Head(todo))
  /\ \E env \in RunnerEnvs :
       LET r == gate_func(runner_config, Head(todo), env)
           entry == legacy_entry(r.outcome)
       IN /\ ~entry.success
          /\ results' = Put(results, Head(todo), entry)
          /\ returned' = Put(results, Head(todo), entry)
          /\ started' = Append(started, Head(todo))
  /\ pc' = "idle"
  /\ UNCHANGED <<client, review, tools_config, gates, manager_results, runner_config,
                 tool_runner_results, call, todo, last, runs, calls>>

\* the loop ran out of gates: return self.results
LegacyReturn ==
  /\ pc = "legacy"
  /\ todo = <<>>
  /\ pc' = "idle"
  /\ returned' = results
  /\ UNCHANGED <<client, review, tools_config, gates, manager_results, runner_config,
                 results, tool_runner_results, call, todo, started, calls,
                 last, runs>>

\* the tools sections the manager of a runner loads
LoadedDocs ==
  { <<Entry("formatter", "true"), Entry("linter", "true")>>,
    <<Entry("security", "unset"), Entry("tests", "false")>> }

\* the tools sections of the configurations given to a runner; each leaves
\* at most two gates enabled
RunnerDocs ==
  { <<Entry("security", "false"), Entry("tests", "false")>>,
    <<Entry("formatter", "true"), Entry("linter", "false"),
      Entry("security", "false"), Entry("tests", "false")>>,
    <<Entry("formatter", "false"), Entry("linter", "false"),
      EntryArgs("security", "true", <<"--quiet">>), Entry("tests", "unset")>> }

Init == \E doc \in LoadedDocs, rdoc \in RunnerDocs : Constructed(doc, rdoc)

Next ==
  \/ RunProgressive
  \/ GateNotRegistered
  \/ GateStep
  \/ GateStepRaises
  \/ ProgressiveReturn
  \/ RunLegacy
  \/ LegacyDisabled
  \/ LegacyPass
  \/ LegacyFail
  \/ LegacyReturn

Spec == Init /\ [][Next]_vars

\* ------------------------------------------------------------------------
\* One EnhancedToolRunner used for several run_quality_gates calls
\* ------------------------------------------------------------------------

\* most run_quality_gates calls made in a row on one EnhancedToolRunner
MaxSuccessiveRuns == 2

\* a further run_quality_gates(gate_names, progressive=True)
RunProgressiveAgain ==
  /\ runs < MaxSuccessiveRuns
  /\ runs' = runs + 1
  /\ \E gate_names \in GateNameArgs : EnterRunAllGates(gate_names, "runner")
  /\ UNCHANGED <<client, review, tools_config, gates, runner_config, results,
                 tool_runner_results, last, calls>>

\* a further run_quality_gates(gate_names, progressive=False):
\* _run_legacy_quality_gates writes into self.results as the earlier call
\* left it
RunLegacyAgain ==
  /\ pc \in {"idle", "raised"}
  /\ runs < MaxSuccessiveRuns
  /\ runs' = runs + 1
  /\ call' = [op |-> "legacy", via |-> "runner", gate_names |-> <<>>]
  /\ \E gate_names \in GateNameArgs : todo' = legacy_gates(gate_names)
  /\ pc' = "legacy"
  /\ started' = <<>>
  /\ returned' = <<>>
  /\ UNCHANGED <<client, review, tools_config, gates, manager_results, runner_config,
                 results, tool_runner_results, last, calls>>

NextRuns ==
  \/ RunProgressiveAgain
  \/ GateNotRegistered
  \/ GateStep
  \/ GateStepRaises
  \/ ProgressiveReturn
  \/ RunLegacyAgain
  \/ LegacyDisabled
  \/ LegacyPass
  \/ LegacyFail
  \/ LegacyReturn

SpecRuns == Init /\ [][NextRuns]_vars

\* ------------------------------------------------------------------------
\* ToolRunner.run_quality_gates
\* ------------------------------------------------------------------------

RunStrict ==
  /\ pc = "idle"
  /\ runs < MaxRuns
  /\ runs' = runs + 1
  /\ call' = [op |-> "strict", gate_names |-> <<>>, via |-> "tool_runner"]
  /\ todo' = LegacyOrder
  /\ pc' = "strict"
  /\ started' = <<>>
  /\ returned' = <<>>
  /\ UNCHANGED <<client, review, tools_config, gates, manager_results, runner_config,
                 results, tool_runner_results, last, calls>>

StrictDisabled ==
  /\ pc = "strict"
  /\ todo # <<>>
  /\ ~is_tool_enabled(runner_config, Head(todo))
  /\ todo' = Tail(todo)
  /\ UNCHANGED <<client, review, tools_config, gates, manager_results, runner_config,
                 results, tool_runner_results, pc, call, returned, started,
                 calls, last, runs>>

StrictPass ==
  /\ pc = "strict"
  /\ todo # <<>>
  /\ is_tool_enabled(runner_config, Head(todo))
  /\ \E env \in RunnerEnvs :
       LET r == gate_func(runner_config, Head(todo), env)
           entry == legacy_entry(r.outcome)
       IN /\ entry.success
          /\ tool_runner_results' = Put(tool_runner_results, Head(todo), entry)
          /\ started' = Append(started, Head(todo))
  /\ todo' = Tail(todo)
  /\ UNCHANGED <<client, review, tools_config, gates, manager_results, runner_config,
                 results, pc, call, returned, last, runs, calls>>

StrictFail ==
  /\ pc = "strict"
  /\ todo # <<>>
  /\ is_tool_enabled(runner_config, Head(todo))
  /\ \E env \in RunnerEnvs :
       LET r == gate_func(runner_config, Head(todo), env)
           entry == legacy_entry(r.outcome)
       IN /\ ~entry.success
          /\ tool_runner_results' = Put(tool_runner_results, Head(todo), entry)
          /\ returned' = Put(tool_runner_results, Head(todo), entry)
          /\ started' = Append(started, Head(todo))
  /\ pc' = "idle"
  /\ UNCHANGED <<client, review, tools_config, gates, manager_results, runner_config,
                 results, call, todo, last, runs, calls>>

StrictReturn ==
  /\ pc = "strict"
  /\ todo = <<>>
  /\ pc' = "idle"
  /\ returned' = tool_runner_results
  /\ UNCHANGED <<client, review, tools_config, gates, manager_results, runner_config,
                 results, tool_runner_results, call, todo, started, calls,
                 last, runs>>

\* the tools sections of the configurations given to a ToolRunner
StrictDocs ==
  RunnerDocs \cup
  { <<>>,
    <<Entry("formatter", "true"), Entry("linter", "false")>>,
    <<EntryArgs("linter", "unset", <<"--quiet">>), Entry("typecheck", "false")>> }

InitStrict == \E rdoc \in StrictDocs : Constructed(<<>>, rdoc)

NextStrict ==
  \/ RunStrict
  \/ StrictDisabled
  \/ StrictPass
  \/ StrictFail
  \/ StrictReturn

SpecStrict == InitStrict /\ [][NextStrict]_vars

\* ------------------------------------------------------------------------
\* Consumers of the result sets (get_summary, get_ai_context, ...)
\* ------------------------------------------------------------------------

\* most gates in the result set the consumers read
MaxQueryGates == 2

\* the results run_single_gate can give a gate
ResultsOf(n) ==
  { QualityGateResult(n, "success", <<"Would", "reformat", "main.py">>, <<>>,
                      default_configs(n).command),
    QualityGateResult(n, "failed", <<"Would", "reformat", "main.py">>, <<>>,
                      default_configs(n).command),
    QualityGateResult(n, "failed", <<>>, <<"Unexpected", "error:", "Tool">>, <<>>),
    QualityGateResult(n, "skipped", <<>>, <<"Failed", "to", "install", n>>, <<>>) }

\* the entries a legacy run can store for a gate
LegacyEntriesOf(n) ==
  { [success |-> TRUE, output |-> <<>>, enabled |-> TRUE],
    [success |-> FALSE, output |-> <<"Would", "reformat", "main.py">>,
     enabled |-> TRUE],
    [success |-> FALSE, output |-> <<"Error:", "Tool", "not", "found:", n>>,
     enabled |-> TRUE] }

\* the dicts with the given keys in the given order, each value drawn from
\* the set values_of gives for its key
RECURSIVE DictsOver(_, _)
DictsOver(names, values_of) ==
  IF names = <<>> THEN { <<>> }
  ELSE { <<[key |-> Head(names), val |-> v]>> \o d :
           v \in values_of[Head(names)], d \in DictsOver(Tail(names), values_of) }

\* a runner after a progressive run, or after a legacy run on a fresh
\* runner, about to be read by consumers
InitQueries ==
  /\ tools_config = <<>>
  /\ gates = <<>>
  /\ runner_config = <<>>
  /\ tool_runner_results = <<>>
  /\ pc = "idle"
  /\ call = [op |-> "none"]
  /\ todo = <<>>
  /\ returned = <<>>
  /\ started = <<>>
  /\ calls = <<>>
  /\ last = [op |-> "none"]
  /\ runs = 1
  /\ client = NoClient
  /\ review = NoReview
  /\ \E names \in DistinctSeqs(KnownGates, MaxQueryGates) :
       \/ /\ manager_results \in DictsOver(names, [n \in KnownGates |-> ResultsOf(n)])
          /\ results = to_legacy_format(manager_results)
       \/ /\ manager_results = <<>>
          /\ results \in DictsOver(names, [n \in KnownGates |-> LegacyEntriesOf(n)])

\* one consumer runs; last keeps what it returned, what the same consumer
\* returned just before (if it was the last to run), and the result sets
\* as they were before the call
Query(query) ==
  /\ pc = "idle"
  /\ LET repeat == last.op = "query" /\ last.query = query
     IN last' = [op |-> "query", query |-> query,
                 out |-> query_output(query, manager_results, results),
                 repeat |-> repeat,
                 prev_out |-> IF repeat THEN last.out ELSE <<>>,
                 manager_results_before |-> manager_results,
                 results_before |-> results]
  /\ manager_results' = manager_results_after(query, manager_results)
  /\ results' = results_after(query, results)
  /\ UNCHANGED <<client, review, tools_config, gates, runner_config, tool_runner_results, pc,
                 call, todo, returned, started, calls, runs>>

GetSummary == Query("get_summary")

GetAiContext == Query("get_ai_context")

GetFailedGates == Query("get_failed_gates")

GetSuccessfulGates == Query("get_successful_gates")

GetRecoverySuggestions == Query("get_recovery_suggestions")

NextQueries ==
  \/ GetSummary
  \/ GetAiContext
  \/ GetFailedGates
  \/ GetSuccessfulGates
  \/ GetRecoverySuggestions

SpecQueries == InitQueries /\ [][NextQueries]_vars

\* ------------------------------------------------------------------------
\* GeminiClient.run_review
\* ------------------------------------------------------------------------

\* most run_review calls made on one client
MaxReviews == 2

\* GeminiClient.__init__
InitReview ==
  /\ tools_config = <<>>
  /\ gates = <<>>
  /\ manager_results = <<>>
  /\ runner_config = <<>>
  /\ results = <<>>
  /\ tool_runner_results = <<>>
  /\ pc = "idle"
  /\ call = [op |-> "none"]
  /\ todo = <<>>
  /\ returned = <<>>
  /\ started = <<>>
  /\ calls = <<>>
  /\ last = [op |-> "none"]
  /\ runs = 0
  /\ \E dry_run \in BOOLEAN :
       client = [dry_run |-> dry_run, max_retries |-> 3, retry_delay |-> 1,
                 reviews |-> 0]
  /\ review = NoReview

NoOutcome == [kind |-> "none", success |-> FALSE, output |-> <<>>,
              error |-> Error("none", <<>>, <<>>)]

ReviewReturns(output) ==
  [kind |-> "return", success |-> TRUE, output |-> output,
   error |-> Error("none", <<>>, <<>>)]

ReviewRaises(error) ==
  [kind |-> "raise", success |-> FALSE, output |-> <<>>, error |-> error]

\* run_review is entered, in an environment where the availability probe
\* would end as probe says, with a configuration whose ai.enabled is
\* ai_enabled, and leaves its opening checks by the given branch
EnterReview(branch, next_pc, outcome) ==
  /\ review.pc \in {"none", "returned", "raised"}
  /\ client.reviews < MaxReviews
  /\ client' = [client EXCEPT !.reviews = @ + 1]
  /\ \E probe \in ProbeEnds, ai_enabled \in BOOLEAN :
       LET entry == run_review_entry(client.dry_run, probe, ai_enabled)
       IN /\ entry.branch = branch
          /\ review' = [pc |-> next_pc, probe |-> probe, ai_enabled |-> ai_enabled,
                        probes |-> entry.probes, attempt |-> 0, attempts |-> <<>>,
                        sleeps |-> <<>>, temp_files |-> 0, existing |-> 0,
                        calls |-> <<>>,
                        outcome |-> outcome]

\* if self.dry_run: return True, "AI review skipped (dry run mode)"
ReviewDryRun ==
  /\ EnterReview("dry_run", "returned",
                 ReviewReturns(<<"AI", "review", "skipped", "(dry", "run", "mode)">>))
  /\ UNCHANGED <<tools_config, gates, manager_results, runner_config,
                 results, tool_runner_results, pc, call, todo, returned,
                 started, calls, last, runs>>

\* if not self.is_available(): raise AIReviewError(...)
ReviewUnavailable ==
  /\ EnterReview("unavailable", "raised",
                 ReviewRaises(Error("AIReviewError",
                   <<"Gemini", "CLI", "not", "found.", "Please", "install", "it",
                     "first.">>, <<>>)))
  /\ UNCHANGED <<tools_config, gates, manager_results, runner_config,
                 results, tool_runner_results, pc, call, todo, returned,
                 started, calls, last, runs>>

\* is_available lets the exception of its spawn through
ReviewProbeRaises ==
  /\ EnterReview("probe_raises", "raised",
                 ReviewRaises(Error("OSError", <<"Exec", "format", "error">>, <<>>)))
  /\ UNCHANGED <<tools_config, gates, manager_results, runner_config,
                 results, tool_runner_results, pc, call, todo, returned,
                 started, calls, last, runs>>

\* if not config.get("ai", {}).get("enabled", True): return True, ...
ReviewDisabled ==
  /\ EnterReview("disabled", "returned",
                 ReviewReturns(<<"AI", "review", "disabled", "in", "configuration">>))
  /\ UNCHANGED <<tools_config, gates, manager_results, runner_config,
                 results, tool_runner_results, pc, call, todo, returned,
                 started, calls, last, runs>>

\* the context is prepared and the retry loop entered
ReviewStart ==
  /\ EnterReview("attempt", "attempting", NoOutcome)
  /\ UNCHANGED <<tools_config, gates, manager_results, runner_config,
                 results, tool_runner_results, pc, call, todo, returned,
                 started, calls, last, runs>>

\* the record of one attempt
AttemptRecord(env, body) ==
  [env |-> env, kind |-> body.kind, error |-> body.error, output |-> body.output]

\* the attempt's command exits zero: run_review returns its output
AttemptSucceeds ==
  /\ review.pc = "attempting"
  /\ \E env \in AttemptEnvs :
       LET body == attempt_body(env)
       IN /\ body.kind = "return"
          /\ review' = [review EXCEPT
                          !.pc = "returned",
                          !.attempts = Append(@, AttemptRecord(env, body)),
                          !.temp_files = @ + body.temp_files,
                          !.existing = @ + body.left,
                          !.calls = @ \o body.calls,
                          !.outcome = ReviewReturns(body.output)]
  /\ UNCHANGED client
  /\ UNCHANGED <<tools_config, gates, manager_results, runner_config,
                 results, tool_runner_results, pc, call, todo, returned,
                 started, calls, last, runs>>

\* the attempt fails and another follows: time.sleep(self.retry_delay);
\* self.retry_delay *= 2
AttemptFailsRetry ==
  /\ review.pc = "attempting"
  /\ after_failure(review.attempt, client.max_retries) = "retry"
  /\ \E env \in AttemptEnvs :
       LET body == attempt_body(env)
       IN /\ body.kind = "error"
          /\ review' = [review EXCEPT
                          !.attempt = @ + 1,
                          !.attempts = Append(@, AttemptRecord(env, body)),
                          !.temp_files = @ + body.temp_files,
                          !.existing = @ + body.left,
                          !.calls = @ \o body.calls,
                          !.sleeps = Append(@, client.retry_delay)]
  /\ client' = [client EXCEPT !.retry_delay = @ * 2]
  /\ UNCHANGED <<tools_config, gates, manager_results, runner_config,
                 results, tool_runner_results, pc, call, todo, returned,
                 started, calls, last, runs>>

\* the last attempt fails: break, and raise
AttemptFailsLast ==
  /\ review.pc = "attempting"
  /\ after_failure(review.attempt, client.max_retries) = "break"
  /\ \E env \in AttemptEnvs :
       LET body == attempt_body(env)
       IN /\ body.kind = "error"
          /\ review' = [review EXCEPT
                          !.pc = "raised",
                          !.attempts = Append(@, AttemptRecord(env, body)),
                          !.temp_files = @ + body.temp_files,
                          !.existing = @ + body.left,
                          !.calls = @ \o body.calls,
                          !.outcome = ReviewRaises(
                             all_retries_failed(body.error, client.max_retries))]
  /\ UNCHANGED client
  /\ UNCHANGED <<tools_config, gates, manager_results, runner_config,
                 results, tool_runner_results, pc, call, todo, returned,
                 started, calls, last, runs>>

NextReview ==
  \/ ReviewDryRun
  \/ ReviewUnavailable
  \/ ReviewProbeRaises
  \/ ReviewDisabled
  \/ ReviewStart
  \/ AttemptSucceeds
  \/ AttemptFailsRetry
  \/ AttemptFailsLast

SpecReview == InitReview /\ [][NextReview]_vars

\* ------------------------------------------------------------------------
\* _prepare_context and get_git_diff, each called once on inputs of its own
\* ------------------------------------------------------------------------

\* the gates of the tool_results given to _prepare_context, and their
\* legacy entries: outputs around the limits of the gate block and of the
\* test results section
ContextGates == {"linter", "tests"}

ContextEntries ==
  [n \in ContextGates |->
     [success : BOOLEAN,
      output : IF n = "tests"
                 THEN { <<>>, Chars(2), Chars(OutputLimit + 1),
                        Chars(TestOutputLimit + 1) }
                 ELSE { <<>>, Chars(2), Chars(OutputLimit),
                        Chars(OutputLimit + 1) }]]

\* the ai.context section of the configuration: each flag absent, true or
\* false
ContextConfigs ==
  UNION { DictsOver(names, [k \in {"include_git_diff", "include_test_results"}
                              |-> BOOLEAN]) :
            names \in { <<>>, <<"include_git_diff">>, <<"include_test_results">>,
                        <<"include_git_diff", "include_test_results">> } }

\* the repositories _prepare_context is run in: none, or one whose unstaged
\* diff is short, with every end of git diff --cached
ContextGitEnvs ==
  { e \in GitEnvs :
      /\ e.unstaged = [proc |-> "exit0", out |-> Chars(2)]
      /\ (~e.repo => e.staged = e.unstaged) }

InitContext ==
  /\ tools_config = <<>>
  /\ gates = <<>>
  /\ manager_results = <<>>
  /\ runner_config = <<>>
  /\ results = <<>>
  /\ tool_runner_results = <<>>
  /\ pc = "idle"
  /\ call = [op |-> "none"]
  /\ todo = <<>>
  /\ returned = <<>>
  /\ started = <<>>
  /\ calls = <<>>
  /\ runs = 0
  /\ client = NoClient
  /\ review = NoReview
  /\ \/ \E names \in DistinctSeqs(ContextGates, Cardinality(ContextGates)),
           context_config \in ContextConfigs, git_env \in ContextGitEnvs :
          \E tool_results \in DictsOver(names, ContextEntries) :
            last = [op |-> "calling", fn |-> "_prepare_context",
                    tool_results |-> tool_results,
                    context_config |-> context_config, git_env |-> git_env]
     \/ \E staged_only \in BOOLEAN, git_env \in GitEnvs :
          last = [op |-> "calling", fn |-> "get_git_diff",
                  staged_only |-> staged_only, git_env |-> git_env]

\* context = self._prepare_context(tool_results, config)
PrepareContext ==
  /\ last.op = "calling" /\ last.fn = "_prepare_context"
  /\ last' = [op |-> "_prepare_context", tool_results |-> last.tool_results,
              context_config |-> last.context_config, git_env |-> last.git_env,
              out |-> prepare_context(last.tool_results, last.context_config,
                                      last.git_env)]
  /\ UNCHANGED <<client, review, tools_config, gates, manager_results,
                 runner_config, results, tool_runner_results, pc, call, todo,
                 returned, started, calls, runs>>

\* git_manager.get_git_diff(staged_only)
GetGitDiff ==
  /\ last.op = "calling" /\ last.fn = "get_git_diff"
  /\ last' = [op |-> "get_git_diff", staged_only |-> last.staged_only,
              git_env |-> last.git_env,
              out |-> get_git_diff(last.staged_only, last.git_env)]
  /\ UNCHANGED <<client, review, tools_config, gates, manager_results,
                 runner_config, results, tool_runner_results, pc, call, todo,
                 returned, started, calls, runs>>

NextContext ==
  \/ PrepareContext
  \/ GetGitDiff

SpecContext == InitContext /\ [][NextContext]_vars

\* ------------------------------------------------------------------------
\* validate_configuration and merge_configs, each called once on inputs of
\* its own
\* ------------------------------------------------------------------------

\* the values of a project section: None, or a dict without type, of type
\* python, of another type
ProjectSections ==
  { Scalar("None"), Dict(<<>>),
    Dict(<<[key |-> "type", val |-> Scalar("python")]>>),
    Dict(<<[key |-> "type", val |-> Scalar("javascript")]>>) }

\* configurations holding any of the three sections, in any order
ValidatedConfigs ==
  UNION { DictsOver(names, [n \in {"project", "tools", "ai"} |->
                              IF n = "project" THEN ProjectSections
                                               ELSE { Dict(<<>>) }]) :
            names \in DistinctSeqs({"project", "tools", "ai"}, 3) }

\* documents to merge: two sections, each absent, a leaf or a dict of two
\* options, each absent or a leaf
MergedDocs(leaf) ==
  LET options == UNION { DictsOver(names, [n \in {"enabled", "args"} |-> {Scalar(leaf)}]) :
                           names \in { <<>>, <<"enabled">>, <<"args">>,
                                       <<"enabled", "args">> } }
      sections == { Scalar(leaf) } \cup { Dict(o) : o \in options }
  IN UNION { DictsOver(names, [n \in {"tools", "ai"} |-> sections]) :
               names \in { <<>>, <<"tools">>, <<"ai">>, <<"tools", "ai">> } }

InitConfig ==
  /\ tools_config = <<>>
  /\ gates = <<>>
  /\ manager_results = <<>>
  /\ runner_config = <<>>
  /\ results = <<>>
  /\ tool_runner_results = <<>>
  /\ pc = "idle"
  /\ call = [op |-> "none"]
  /\ todo = <<>>
  /\ returned = <<>>
  /\ started = <<>>
  /\ calls = <<>>
  /\ runs = 0
  /\ client = NoClient
  /\ review = NoReview
  /\ \/ \E config \in ValidatedConfigs :
          last = [op |-> "calling", fn |-> "validate_configuration",
                  config |-> config]
     \/ \E default \in MergedDocs("default"), override \in MergedDocs("override") :
          last = [op |-> "calling", fn |-> "merge_configs",
                  default |-> default, override |-> override]

\* validate_configuration(config_data)
ValidateConfiguration ==
  /\ last.op = "calling" /\ last.fn = "validate_configuration"
  /\ last' = [op |-> "validate_configuration", config |-> last.config,
              out |-> validate_configuration(last.config)]
  /\ UNCHANGED <<client, review, tools_config, gates, manager_results,
                 runner_config, results, tool_runner_results, pc, call, todo,
                 returned, started, calls, runs>>

\* config = merge_configs(config, project_config)
MergeConfigs ==
  /\ last.op = "calling" /\ last.fn = "merge_configs"
  /\ last' = [op |-> "merge_configs", default |-> last.default,
              override |-> last.override,
              out |-> merge_configs(last.default, last.override)]
  /\ UNCHANGED <<client, review, tools_config, gates, manager_results,
                 runner_config, results, tool_runner_results, pc, call, todo,
                 returned, started, calls, runs>>

NextConfig ==
  \/ ValidateConfiguration
  \/ MergeConfigs

SpecConfig == InitConfig /\ [][NextConfig]_vars

\* ------------------------------------------------------------------------
\* The review command (cli.py main), from the loading of the configuration
\* to the exit code
\* ------------------------------------------------------------------------

\* what happens around the gates during one run of the command: whether the
\* configuration is valid, how the AI review ends if it is run, whether
\* the reports can be written, and where the user interrupts, if at all
CliEnvs ==
  [config : {"ok", "invalid"},
   ai : {"ok", "unavailable", "ai_review_error", "oserror"},
   report : {"ok", "fails"},
   interrupt : {"none", "gates", "ai", "report"}]

\* what runner.run_quality_gates() gives the command: the results of the
\* runner, or an exception
RunReturns(mres, res) ==
  [kind |-> "return", exc |-> "none", manager_results |-> mres, results |-> res]

RunRaises(exc) ==
  [kind |-> "raise", exc |-> exc, manager_results |-> <<>>, results |-> <<>>]

\* the results a strict run can return: gates in the fixed order, none
\* after a failed one
StrictResults ==
  { d \in UNION { DictsOver(names, [n \in KnownGates |-> LegacyEntriesOf(n)]) :
                    names \in DistinctSeqs(KnownGates, MaxQueryGates) } :
      /\ Keys(d) = SelectSeq(LegacyOrder, LAMBDA n : n \in Range(Keys(d)))
      /\ \A i \in 1..(Len(d) - 1) : d[i].val.success }

\* the exit code of the command, and whether the AI review was started
main(progressive, env, run) ==
  IF env.config = "invalid" THEN [code |-> 1, ai_started |-> FALSE]
  ELSE IF env.interrupt = "gates" THEN [code |-> 130, ai_started |-> FALSE]
  ELSE IF run.kind = "raise" THEN [code |-> 1, ai_started |-> FALSE]
  ELSE IF ~progressive THEN [code |-> 1, ai_started |-> FALSE]
  ELSE LET proceed == can_proceed_to_ai_review(run.manager_results, run.results)
       IN IF proceed /\ env.interrupt = "ai" THEN [code |-> 130, ai_started |-> TRUE]
          ELSE IF proceed /\ env.ai = "oserror" THEN [code |-> 1, ai_started |-> TRUE]
          ELSE IF env.interrupt = "report" THEN [code |-> 130, ai_started |-> proceed]
          ELSE IF env.report = "fails" THEN [code |-> 1, ai_started |-> proceed]
          ELSE IF ~all_tools_passed(run.results) THEN [code |-> 1, ai_started |-> proceed]
          ELSE [code |-> 0, ai_started |-> proceed]

InitCli ==
  /\ tools_config = <<>>
  /\ gates = <<>>
  /\ manager_results = <<>>
  /\ runner_config = <<>>
  /\ results = <<>>
  /\ tool_runner_results = <<>>
  /\ pc = "idle"
  /\ call = [op |-> "none"]
  /\ todo = <<>>
  /\ returned = <<>>
  /\ started = <<>>
  /\ calls = <<>>
  /\ runs = 0
  /\ client = NoClient
  /\ review = NoReview
  /\ \E env \in CliEnvs :
       \/ \E names \in DistinctSeqs(KnownGates, MaxQueryGates) :
            \E mres \in DictsOver(names, [n \in KnownGates |-> ResultsOf(n)]) :
              last = [op |-> "calling", progressive |-> TRUE, env |-> env,
                      run |-> RunReturns(mres, to_legacy_format(mres))]
       \/ last = [op |-> "calling", progressive |-> TRUE, env |-> env,
                  run |-> RunRaises("OSError")]
       \/ \E res \in StrictResults :
            last = [op |-> "calling", progressive |-> FALSE, env |-> env,
                    run |-> RunReturns(<<>>, res)]

\* one run of the command
Main ==
  /\ last.op = "calling"
  /\ last' = [op |-> "main", progressive |-> last.progressive, env |-> last.env,
              run |-> last.run,
              out |-> main(last.progressive, last.env, last.run)]
  /\ UNCHANGED <<client, review, tools_config, gates, manager_results,
                 runner_config, results, tool_runner_results, pc, call, todo,
                 returned, started, calls, runs>>

NextCli == Main

SpecCli == InitCli /\ [][NextCli]_vars

\* ------------------------------------------------------------------------
\* Properties of one gate (checked under SpecGate)
\* ------------------------------------------------------------------------

GateReturned == last.op = "run_single_gate" /\ last.kind = "return"

\* the gate's tool is unavailable: the probe is made and says so
ToolUnavailable ==
  /\ last.gate_config.check_available
  /\ last.env.probe \in {"missing", "exitN", "timeout", "fnf"}

\* the install command, were it run, would resolve and exit zero
InstallWouldExitZero ==
  /\ last.gate_config.install_command # <<>>
  /\ last.env.install.which
  /\ last.env.install.proc = "exit0"

\* the gate's own command was handed to the executor and a process spawned
GateCommandSpawned ==
  \E i \in 1..Len(calls) :
    calls[i].cmd = last.gate_config.command /\ calls[i].spawned

\* the gate's own command was handed to the executor at all
GateCommandCalled ==
  \E i \in 1..Len(calls) : calls[i].cmd = last.gate_config.command

\* the gate's command ran to completion (it exited, with whatever code)
GateCompleted ==
  GateCommandSpawned /\ last.env.exec.proc \in {"exit0", "exitN"}

\* the gate's command overran its timeout
GateOverran == GateCommandSpawned /\ last.env.exec.proc = "timeout"

\* C4: a gate whose command exceeds the gate's timeout is finalized as
\* TimedOut, not Failed, whatever its success predicate.
C4_OverrunIsTimedOut ==
  (GateReturned /\ GateOverran) => last.result.status = "timeout"

\* C5: with the tool unavailable and auto_install false or the install
\* failing, the gate is Skipped with a non-empty error text and its own
\* command is never executed.
C5_UnavailableIsSkipped ==
  (GateReturned /\ ToolUnavailable
     /\ (~last.gate_config.auto_install \/ ~InstallWouldExitZero))
  => /\ last.result.status = "skipped"
     /\ last.result.error # <<>>
     /\ ~GateCommandCalled

C5_Witness ==
  /\ GateReturned /\ ToolUnavailable
  /\ last.gate_config.auto_install
  /\ last.gate_config.install_command # <<>>
  /\ last.env.install.which /\ last.env.install.proc = "exitN"
  /\ last.env.exec.which /\ last.env.exec.proc = "exit0"
  /\ last.result.status = "skipped"

\* C6: with the tool unavailable, auto_install true and an install command
\* that exits zero, the gate's command is executed and the gate ends
\* Success, Failed or TimedOut, not Skipped.
C6_InstalledGateRuns ==
  (GateReturned /\ ToolUnavailable /\ last.gate_config.auto_install
     /\ InstallWouldExitZero)
  => /\ GateCommandCalled
     /\ last.result.status \in {"success", "failed", "timeout"}

\* C7: for a gate whose command ran to completion, a defined predicate
\* alone decides Success (the exit code is not consulted); a predicate that
\* raises, or no predicate, leaves the decision to the exit code.
C7_PredicateDecides ==
  (GateReturned /\ GateCompleted)
  => LET kind == last.gate_config.success_criteria
         crit == success_criteria(kind, last.env.exec.out)
         exit_zero == last.env.exec.proc = "exit0"
     IN (last.result.status = "success")
        <=> IF kind = "none" \/ crit.raised THEN exit_zero ELSE crit.value

C7_Witness ==
  /\ GateReturned /\ GateCompleted
  /\ last.gate_config.success_criteria = "no_reformat"
  /\ last.env.exec.proc = "exit0"
  /\ last.result.status = "failed"

\* C8: the default linter, security and tests gates are Success whenever
\* their process runs to completion, even when it exits non-zero.
C8_PermissiveGatesSucceed ==
  (GateReturned /\ GateCompleted
     /\ last.gate_config \in RegistryConfigs
     /\ last.gate_config.name \in {"linter", "security", "tests"})
  => last.result.status = "success"

C8_Witness ==
  /\ GateReturned /\ GateCompleted
  /\ last.gate_config \in RegistryConfigs
  /\ last.gate_config.name = "security"
  /\ last.env.exec.proc = "exitN"
  /\ last.result.status = "success"

\* C13: run_single_gate never raises: whatever the probe, the installer and
\* the executor do, it returns one result whose status is Success, Failed,
\* Skipped or TimedOut, never Pending or Running.
C13_SingleGateAlwaysReturnsTerminal ==
  last.op = "run_single_gate"
  => /\ last.kind = "return"
     /\ last.result.status \in {"success", "failed", "skipped", "timeout"}
     /\ last.result.tool_name = last.gate_config.name

\* ------------------------------------------------------------------------
\* Properties of the runs
\* ------------------------------------------------------------------------

\* the place of a gate in the fixed order
OrderIndex(n) == CHOOSE i \in 1..Len(LegacyOrder) : LegacyOrder[i] = n

NoKeyTwice(d) == Cardinality(Range(Keys(d))) = Len(d)

\* C1 (SpecManager): in a progressive run every requested gate that is in
\* the registry gets exactly one result; whatever the earlier gates did,
\* no later gate is dropped: at every point of the run each such gate is
\* recorded or still to be visited, and at the return all are recorded.
C1_EveryGateGetsOneResult ==
  (call.op = "run_all_gates" /\ call.via = "manager")
  => LET requested == IF call.gate_names # <<>> THEN Range(call.gate_names)
                      ELSE Range(Keys(gates))
         due == { n \in requested : Has(gates, n) }
         pending == { n \in Range(todo) : Has(gates, n) }
         recorded == Range(Keys(manager_results))
     IN /\ recorded \subseteq due
        /\ due \subseteq recorded \cup pending
        /\ NoKeyTwice(manager_results)
        /\ \A i \in 1..Len(manager_results) :
             manager_results[i].val.tool_name = manager_results[i].key
        /\ pc = "idle" => (recorded = due /\ returned = manager_results)

\* C2 (Spec): can_proceed_to_ai is true iff some gate has status Success
\* (false for the empty result set), and after a progressive run
\* can_proceed_to_ai_review gives the same value.
C2_ProceedIffSomeSuccess ==
  LET some_success ==
        \E i \in 1..Len(manager_results) : manager_results[i].val.status = "success"
  IN /\ get_summary(manager_results).can_proceed_to_ai <=> some_success
     /\ (pc = "idle" /\ call.op = "run_all_gates")
          => (can_proceed_to_ai_review(manager_results, results) <=> some_success)

\* N = 2 gates, K = 1 succeeded, the other failed: the run may proceed
C2_Witness ==
  /\ pc = "idle" /\ call.op = "run_all_gates" /\ call.via = "runner"
  /\ Len(manager_results) = 2
  /\ manager_results[1].val.status = "failed"
  /\ manager_results[2].val.status = "success"
  /\ can_proceed_to_ai_review(manager_results, results)

\* C3 (SpecStrict): when a gate of a strict run fails or raises, the run
\* halts there with the gate recorded as success = False, and no gate later
\* in the order appears in the returned result set.
C3_NothingAfterTheFailedGate ==
  (pc = "idle" /\ call.op = "strict")
  => \A i, j \in 1..Len(returned) :
       ~returned[i].val.success
       => OrderIndex(returned[j].key) <= OrderIndex(returned[i].key)

\* C9 (Spec): a gate whose tools entry has enabled = false never appears in
\* the result set run_quality_gates returns.
C9_DisabledGateNeverReturned ==
  (pc = "idle" /\ call.op \in {"run_all_gates", "legacy", "strict"})
  => \A i \in 1..Len(returned) : is_tool_enabled(runner_config, returned[i].key)

\* C10 (SpecRegistry): the registry holds exactly the names of the tools
\* section that are known gates and not disabled, each once, each bound to
\* the configuration of that gate.
C10_RegistryIsKnownAndEnabled ==
  pc = "idle"
  => /\ Range(Keys(gates)) =
          { tools_config[i].key : i \in
              { k \in 1..Len(tools_config) :
                  /\ tools_config[k].key \in KnownGates
                  /\ tools_config[k].val.enabled # "false" } }
     /\ NoKeyTwice(gates)
     /\ \A i \in 1..Len(gates) : gates[i].val.name = gates[i].key

\* {formatter: enabled, linter: disabled} yields exactly {formatter}
C10_Witness ==
  /\ pc = "idle"
  /\ tools_config = <<Entry("formatter", "true"), Entry("linter", "false")>>
  /\ Keys(gates) = <<"formatter">>

\* ------------------------------------------------------------------------
\* Properties of the command executor (checked under SpecExecutor)
\* ------------------------------------------------------------------------

\* run_command was entered with a non-empty command vector and has ended
ExecutorEnded ==
  /\ last.op = "run_command"
  /\ last.kwargs \subseteq run_command_params
  /\ last.cmd # <<>>

\* C11: for a non-empty command vector whose first token does not resolve
\* on the search path, run_command raises ToolNotFoundError, which is no
\* ToolExecutionError, and spawns no process; it raises ToolNotFoundError
\* too when the token resolves but the spawn reports the file missing.
C11_UnresolvedIsToolNotFound ==
  ExecutorEnded
  => /\ ~last.env.which
          => /\ last.outcome.kind = "raise"
             /\ last.outcome.exc = "ToolNotFoundError"
             /\ ~IsInstance(last.outcome.exc, "ToolExecutionError")
             /\ \A i \in 1..Len(calls) : ~calls[i].spawned
     /\ (last.env.which /\ last.env.proc = "fnf")
          => /\ last.outcome.kind = "raise"
             /\ last.outcome.exc = "ToolNotFoundError"
             /\ ~IsInstance(last.outcome.exc, "ToolExecutionError")

C11_Witness ==
  /\ ExecutorEnded
  /\ last.cmd = <<"pip", "install", "bandit">>
  /\ ~last.env.which
  /\ last.outcome.exc = "ToolNotFoundError"
  /\ last.outcome.msg = <<"Tool", "not", "found:", "pip">>

\* C12: the error run_command raises for a wall-clock overrun differs in
\* kind (exception class) from the one it raises for a generic execution
\* error of the same call.
C12_OverrunHasItsOwnKind ==
  (ExecutorEnded /\ last.env.which /\ last.env.proc = "timeout")
  => LET generic == run_command(last.cmd, last.kwargs, last.timeout,
                                [last.env EXCEPT !.proc = "oserror"])
     IN /\ last.outcome.kind = "raise"
        /\ generic.kind = "raise"
        /\ last.outcome.exc # generic.exc

\* C15 (Spec): after a legacy run the proceed-to-AI decision is true iff
\* every enabled gate has succeeded.
C15_LegacyProceedsIffAllPassed ==
  (pc = "idle" /\ call.op = "legacy")
  => (can_proceed_to_ai_review(manager_results, results)
      <=> \A n \in Range(LegacyOrder) :
            is_tool_enabled(runner_config, n)
            => (Has(results, n) /\ Get(results, n).success))

\* ------------------------------------------------------------------------
\* Properties of the consumers (checked under SpecQueries)
\* ------------------------------------------------------------------------

ReviewCalled == review.pc # "none"

\* the availability probe says the AI tool is not there
AiToolNotDiscoverable == review.probe \in {"missing", "exitN", "timeout", "fnf"}

\* C16: run_review makes at most 3 attempts; an attempt that succeeds is the
\* last one made, after failures only, and run_review then returns success
\* with the output of that attempt alone.
C16_AtMostThreeAttempts ==
  ReviewCalled
  => LET made == Len(review.attempts)
     IN /\ made <= 3
        /\ Len(review.calls) <= 3
        /\ \A i \in 1..(made - 1) : review.attempts[i].kind = "error"
        /\ (made > 0 /\ review.attempts[made].kind = "return")
             => LET out == review.attempts[made].env.exec.out
                IN /\ review.pc = "returned"
                   /\ review.outcome.success
                   /\ review.outcome.output =
                        IF json_loads(out).ok THEN json_dumps(json_loads(out).value)
                        ELSE out
        /\ (review.pc = "returned" /\ made > 0)
             => review.attempts[made].kind = "return"

\* two failures, the first of which printed something else, then a success
\* on the third attempt
C16_Witness ==
  /\ review.pc = "returned"
  /\ Len(review.attempts) = 3
  /\ review.attempts[1].env.exec.proc = "exitN"
  /\ review.attempts[1].env.exec.out = <<"{\"score\":9}">>
  /\ review.attempts[2].env.exec.proc = "timeout"
  /\ review.attempts[3].env.exec.out = <<"LGTM">>
  /\ review.outcome.output = <<"LGTM">>

\* C17: after three failed attempts run_review raises an AIReviewError whose
\* cause is the error of the third attempt, whatever kind of failure it was.
C17_RaisedWrapsThirdError ==
  (review.pc = "raised" /\ Len(review.attempts) = 3)
  => /\ review.outcome.error.cls = "AIReviewError"
     /\ review.outcome.error.cause = <<review.attempts[3].error>>

\* C18: in every run_review call the sleep before the second attempt is 1.0
\* and the one before the third is 2.0, and there is a sleep between two
\* attempts only, none after the last attempt or after a success.
C18_BackoffStartsAtOne ==
  ReviewCalled
  => LET made == Len(review.attempts)
         gaps == IF review.pc = "attempting" THEN made
                 ELSE IF made > 0 THEN made - 1 ELSE 0
     IN /\ Len(review.sleeps) = gaps
        /\ \A i \in 1..Len(review.sleeps) : review.sleeps[i] = 2 ^ (i - 1)

\* C19: in dry-run mode run_review makes no availability check, creates no
\* temp file, calls no process and returns (True, the placeholder),
\* whatever the configuration and the state of the AI tool.
C19_DryRunDoesNothing ==
  (ReviewCalled /\ client.dry_run)
  => /\ review.pc = "returned"
     /\ review.outcome.success
     /\ review.outcome.output = <<"AI", "review", "skipped", "(dry", "run", "mode)">>
     /\ review.probes = 0
     /\ review.temp_files = 0
     /\ review.calls = <<>>
     /\ review.attempts = <<>>

C19_Witness ==
  /\ ReviewCalled /\ client.dry_run
  /\ review.probe = "missing" /\ ~review.ai_enabled
  /\ review.pc = "returned"
  /\ client.reviews = 2

\* C20: when not in dry-run mode and the AI tool is not discoverable,
\* run_review raises AIReviewError at once: no attempt, no sleep, no temp
\* file.
C20_UnavailableFailsAtOnce ==
  (ReviewCalled /\ ~client.dry_run /\ AiToolNotDiscoverable)
  => /\ review.pc = "raised"
     /\ review.outcome.error.cls = "AIReviewError"
     /\ review.attempts = <<>>
     /\ review.sleeps = <<>>
     /\ review.temp_files = 0
     /\ review.calls = <<>>

C20_Witness ==
  /\ ReviewCalled /\ ~client.dry_run
  /\ review.probe = "exitN" /\ ~review.ai_enabled
  /\ review.pc = "raised"
  /\ review.outcome.error.msg[1] = "Gemini"

DisabledMessage == <<"AI", "review", "disabled", "in", "configuration">>

\* C21: when not in dry-run mode and the AI tool is discoverable, a
\* configuration with ai.enabled false makes run_review return success with
\* the fixed "disabled" message, with no attempt, no temp file, no sleep and
\* no executor call
C21_DisabledReturnsDisabledMessage ==
  (ReviewCalled /\ ~client.dry_run /\ review.probe = "exit0" /\ ~review.ai_enabled)
    => /\ review.pc = "returned"
       /\ review.outcome = ReviewReturns(DisabledMessage)
       /\ review.attempts = <<>>
       /\ review.sleeps = <<>>
       /\ review.temp_files = 0
       /\ review.calls = <<>>

C21_Witness ==
  /\ ReviewCalled /\ ~client.dry_run /\ review.probe = "exit0"
  /\ ~review.ai_enabled
  /\ review.outcome = ReviewReturns(DisabledMessage)

\* C21 as stated, for every mode and every environment: ai.enabled false
\* makes run_review return success with the "disabled" message
C21_DisabledAlwaysReturnsDisabledMessage ==
  (ReviewCalled /\ ~review.ai_enabled)
    => /\ review.pc = "returned"
       /\ review.outcome = ReviewReturns(DisabledMessage)
       /\ review.calls = <<>>

\* C22: no temp file of a run_review attempt is on disk once that attempt
\* is over (when the backoff sleep or the next attempt begins, and once
\* run_review has returned or raised), so that never more than one exists
C22_NoArtifactOutlivesItsAttempt ==
  ReviewCalled => review.existing = 0

\* ------------------------------------------------------------------------
\* Properties of the AI context and of the git diff (checked under
\* SpecContext)
\* ------------------------------------------------------------------------

ContextPrepared == last.op = "_prepare_context"

ContextReturned == ContextPrepared /\ last.out.kind = "return"

\* where the status line of a gate stands among the lines of the context
StatusLineIndex(parts, tool_name) ==
  CHOOSE k \in 1..Len(parts) : parts[k] # <<>> /\ parts[k][1] = upper(tool_name)

\* where a heading stands among the lines of the context, 0 if nowhere
HeadingIndex(parts, heading) ==
  IF \E k \in 1..Len(parts) : parts[k] = <<heading>>
    THEN CHOOSE k \in 1..Len(parts) : parts[k] = <<heading>>
    ELSE 0

OutputLines(parts) ==
  { k \in 1..Len(parts) : parts[k] # <<>> /\ parts[k][1] = "Output: " }

\* C23: in the block of a gate, an output of more than 500 characters
\* appears as its first 500 characters followed by "...", a shorter one
\* appears unchanged, and an empty one gets no "Output: " line
C23_GateOutputTruncatedAt500 ==
  ContextReturned =>
    LET parts == last.out.parts
        tool_results == last.tool_results
    IN /\ \A i \in 1..Len(tool_results) :
            LET output == tool_results[i].val.output
                k == StatusLineIndex(parts, tool_results[i].key)
            IN IF output = <<>> THEN parts[k + 1] = <<>>
               ELSE IF Len(output) > 500
                 THEN parts[k + 1] = <<"Output: ">> \o SubSeq(output, 1, 500)
                                                   \o <<"...">>
               ELSE parts[k + 1] = <<"Output: ">> \o output
       /\ Cardinality(OutputLines(parts))
            = Cardinality({ i \in 1..Len(tool_results) :
                              tool_results[i].val.output # <<>> })

C23_Witness ==
  /\ ContextReturned
  /\ \E i, j \in 1..Len(last.tool_results) :
       /\ Len(last.tool_results[i].val.output) = 501
       /\ last.tool_results[j].val.output = <<>>
  /\ Cardinality(OutputLines(last.out.parts)) = 1

DiffFlag == ~Has(last.context_config, "include_git_diff")
            \/ Get(last.context_config, "include_git_diff")

TestsFlag == ~Has(last.context_config, "include_test_results")
             \/ Get(last.context_config, "include_test_results")

\* the diff get_git_diff hands to _prepare_context is a non-empty text
DiffFetched ==
  /\ get_git_diff(FALSE, last.git_env).kind = "return"
  /\ ~get_git_diff(FALSE, last.git_env).none

TestsOutputGiven ==
  /\ Has(last.tool_results, "tests")
  /\ Get(last.tool_results, "tests").output # <<>>

\* C24: the context starts with the project header, then holds the gate
\* blocks in the iteration order of tool_results, then the diff section,
\* then the test results section, and ends with the review instructions;
\* the diff section is there iff it is enabled and a diff was fetched, the
\* test results section iff it is enabled and the tests gate has output
C24_SectionsInFixedOrder ==
  ContextReturned =>
    LET parts == last.out.parts
        names == Keys(last.tool_results)
        status(i) == StatusLineIndex(parts, names[i])
        diff == HeadingIndex(parts, "# Recent Changes (Git Diff)")
        tests == HeadingIndex(parts, "# Test Results")
        instructions == HeadingIndex(parts, "# Review Instructions")
    IN /\ parts[1] = <<"# Project Context">>
       /\ parts[4] = <<"# Quality Gate Results">>
       /\ \A i \in 1..Len(names) : 4 < status(i) /\ status(i) < instructions
       /\ \A i, j \in 1..Len(names) : i < j => status(i) < status(j)
       /\ diff # 0 <=> (DiffFlag /\ DiffFetched)
       /\ tests # 0 <=> (TestsFlag /\ TestsOutputGiven)
       /\ diff # 0 => /\ \A i \in 1..Len(names) : status(i) < diff
                      /\ diff < instructions
       /\ tests # 0 => /\ \A i \in 1..Len(names) : status(i) < tests
                       /\ diff < tests
                       /\ tests < instructions
       /\ instructions # 0
       /\ Len(parts) = instructions + 9
       /\ parts[instructions + 1] =
            <<"Please provide a focused code review covering:">>
       /\ parts[Len(parts)] =
            <<"have already been caught by the automated tools.">>

C24_Witness ==
  /\ ContextReturned
  /\ Len(last.tool_results) = 2
  /\ HeadingIndex(last.out.parts, "# Recent Changes (Git Diff)") # 0
  /\ HeadingIndex(last.out.parts, "# Test Results")
       > HeadingIndex(last.out.parts, "# Recent Changes (Git Diff)")

\* get_git_diff, called by _prepare_context, raises
DiffFetchFails ==
  DiffFlag /\ get_git_diff(FALSE, last.git_env).kind = "raise"

\* C25: when fetching the diff fails, _prepare_context returns, without a
\* diff section, the text it returns when the diff is disabled
C25_DiffFailureIsSwallowed ==
  (ContextPrepared /\ DiffFetchFails) =>
    /\ last.out.kind = "return"
    /\ HeadingIndex(last.out.parts, "# Recent Changes (Git Diff)") = 0
    /\ last.out.context
         = prepare_context(last.tool_results,
                           Put(last.context_config, "include_git_diff", FALSE),
                           last.git_env).context

C25_Witness ==
  /\ ContextReturned /\ DiffFetchFails
  /\ last.git_env.staged.proc = "timeout"
  /\ HeadingIndex(last.out.parts, "# Test Results") # 0

\* C26: get_git_diff returns the staged diff when there is one, else the
\* unstaged diff, and returns nothing, without raising, when the project
\* is no repository or git is missing, times out or exits non-zero
C26_GitDiffNeverRaises ==
  last.op = "get_git_diff" =>
    LET env == last.git_env
        staged == env.repo /\ env.staged.proc = "exit0" /\ ~IsBlank(env.staged.out)
        unstaged == /\ env.repo /\ ~last.staged_only
                    /\ env.unstaged.proc = "exit0" /\ ~IsBlank(env.unstaged.out)
    IN /\ last.out.kind = "return"
       /\ staged => (~last.out.none /\ last.out.diff = env.staged.out)
       /\ (~staged /\ unstaged)
            => (~last.out.none /\ last.out.diff = env.unstaged.out)
       /\ (~staged /\ ~unstaged) => last.out.none

\* ------------------------------------------------------------------------
\* Properties of the configuration functions (checked under SpecConfig)
\* ------------------------------------------------------------------------

\* C27: validate_configuration raises ConfigurationError, and nothing
\* else, when the configuration lacks one of the sections project, tools,
\* ai or names a project type other than python, and returns for every
\* configuration with the three sections and project type python
C27_ValidationFailsWithConfigurationError ==
  last.op = "validate_configuration" =>
    LET config == last.config
        lacks == \E x \in {"project", "tools", "ai"} : ~Has(config, x)
        names_type == /\ Has(config, "project")
                      /\ Get(config, "project").dict
                      /\ Has(Get(config, "project").items, "type")
        python == Get(Get(config, "project").items, "type") = Scalar("python")
    IN /\ (lacks \/ (names_type /\ ~python))
            => (last.out.kind = "raise" /\ last.out.exc = "ConfigurationError")
       /\ (~lacks /\ names_type /\ python) => last.out.kind = "return"

C27_Witness ==
  /\ last.op = "validate_configuration"
  /\ ~Has(last.config, "ai")
  /\ Has(last.config, "project") /\ ~Get(last.config, "project").dict
  /\ last.out.exc = "ConfigurationError"

\* result is the deep merge of default and override
RECURSIVE IsDeepMerge(_, _, _)
IsDeepMerge(result, default, override) ==
  /\ Len(result) = Cardinality(Range(Keys(result)))
  /\ Range(Keys(result)) = Range(Keys(default)) \cup Range(Keys(override))
  /\ \A k \in Range(Keys(result)) :
       IF ~Has(override, k) THEN Get(result, k) = Get(default, k)
       ELSE IF Has(default, k) /\ Get(default, k).dict /\ Get(override, k).dict
         THEN /\ Get(result, k).dict
              /\ IsDeepMerge(Get(result, k).items, Get(default, k).items,
                              Get(override, k).items)
       ELSE Get(result, k) = Get(override, k)

\* C28: merge_configs returns the deep merge of its arguments (keys that
\* are dicts on both sides are merged, any other value of override replaces
\* the default's, keys of default alone are kept), leaves its default
\* argument as it was, and merging the same override into the result again
\* changes nothing
C28_MergeIsDeepAndIdempotent ==
  last.op = "merge_configs" =>
    /\ IsDeepMerge(last.out.result, last.default, last.override)
    /\ last.out.default_after = last.default
    /\ merge_configs(last.out.result, last.override).result = last.out.result

C28_Witness ==
  /\ last.op = "merge_configs"
  /\ last.default = <<[key |-> "tools",
                       val |-> Dict(<<[key |-> "enabled", val |-> Scalar("default")],
                                      [key |-> "args", val |-> Scalar("default")]>>)]>>
  /\ last.override = <<[key |-> "tools",
                        val |-> Dict(<<[key |-> "args", val |-> Scalar("override")]>>)]>>
  /\ last.out.result = <<[key |-> "tools",
                          val |-> Dict(<<[key |-> "enabled", val |-> Scalar("default")],
                                         [key |-> "args", val |-> Scalar("override")]>>)]>>

\* ------------------------------------------------------------------------
\* Properties of the review command (checked under SpecCli)
\* ------------------------------------------------------------------------

\* C29: the command exits 0 when every gate that ran succeeded, in
\* progressive and in strict mode; 1 when a gate failed, the configuration
\* is invalid or the report cannot be written; 130 when the user
\* interrupts the gates
C29_ExitCodes ==
  last.op = "main" =>
    LET env == last.env
        run == last.run
        gates_ok == run.kind = "return" /\ all_tools_passed(run.results)
    IN /\ (env.config = "ok" /\ env.interrupt = "none" /\ gates_ok
           /\ env.ai # "oserror" /\ env.report = "ok")
            => last.out.code = 0
       /\ (env.interrupt = "none"
           /\ (env.config = "invalid" \/ ~gates_ok \/ env.report = "fails"))
            => last.out.code = 1
       /\ (env.config = "ok" /\ env.interrupt = "gates") => last.out.code = 130

\* ------------------------------------------------------------------------
\* Properties of the recovery suggestions (checked under SpecQueries)
\* ------------------------------------------------------------------------

SuggestionsAsked == last.op = "query" /\ last.query = "get_recovery_suggestions"

\* C30: get_recovery_suggestions returns one suggestion per failed gate, in
\* the order of the results, with priority high for formatter and security
\* and medium for linter and tests, and none for a successful gate
C30_OneSuggestionPerFailedGate ==
  SuggestionsAsked =>
    LET res == last.results_before
        out == last.out
        failed == SelectSeq(Keys(res), LAMBDA n : ~Get(res, n).success)
    IN /\ [i \in 1..Len(out) |-> out[i].gate] = failed
       /\ \A i \in 1..Len(out) :
            /\ out[i].gate \in {"formatter", "security"} => out[i].priority = "high"
            /\ out[i].gate \in {"linter", "tests"} => out[i].priority = "medium"
            /\ out[i].gate \in {"formatter", "security", "linter", "tests"}
       /\ \A n \in Range(Keys(res)) :
            Get(res, n).success => \A i \in 1..Len(out) : out[i].gate # n

C30_Witness ==
  /\ SuggestionsAsked
  /\ Len(last.out) = 2
  /\ last.out[1].gate = "tests" /\ last.out[1].priority = "medium"
  /\ last.out[2].gate = "formatter" /\ last.out[2].priority = "high"

\* ------------------------------------------------------------------------
\* Properties of the order and of the content of the results (checked under
\* Spec, SpecStrict, SpecManager and SpecQueries)
\* ------------------------------------------------------------------------

\* a progressive run of the runner has returned
ProgressiveReturned == pc = "idle" /\ call.op = "run_all_gates"

\* the names stand in the order in which the registry holds them
InRegistryOrder(names) ==
  names = SelectSeq(Keys(gates), LAMBDA n : n \in Range(names))

\* C31 (Spec): after a progressive run, whatever the order of gate_names,
\* get_failed_gates() and get_successful_gates() list their names in the
\* iteration order of the registry
C31_NameListsInRegistryOrder ==
  ProgressiveReturned =>
    /\ InRegistryOrder(get_failed_gates(results))
    /\ InRegistryOrder(get_successful_gates(results))

\* the place of a gate in the fixed order, 0 for a name that is not in it
FixedPlace(n) ==
  IF n \in Range(LegacyOrder)
    THEN CHOOSE i \in 1..Len(LegacyOrder) : LegacyOrder[i] = n
    ELSE 0

\* one step of a strict or legacy run keeps to the fixed order
FixedOrderStep ==
  LET res == IF pc = "strict" THEN tool_runner_results ELSE results
  IN /\ pc' \in {"legacy", "strict"}
          => \A i, j \in 1..Len(todo') :
               i < j => (0 < FixedPlace(todo'[i])
                         /\ FixedPlace(todo'[i]) < FixedPlace(todo'[j]))
     /\ (pc \in {"legacy", "strict"} /\ todo' # todo /\ started' = started)
          => ~is_tool_enabled(runner_config, Head(todo))
     /\ (pc \in {"legacy", "strict"} /\ started' # started)
          => /\ started' = Append(started, Head(todo))
             /\ is_tool_enabled(runner_config, Head(todo))
             /\ \A i \in 1..Len(started) :
                  /\ FixedPlace(started[i]) < FixedPlace(Head(todo))
                  /\ Get(res, started[i]).success

SummaryAsked == last.op = "query" /\ last.query = "get_summary"

\* C33 (SpecQueries): success_rate, a fraction kept as <<numerator,
\* denominator>>, equals successful / total, lies between 0 and 1, and is 0
\* for the empty result set
C33_SuccessRateIsTheFraction ==
  SummaryAsked =>
    LET res == last.manager_results_before
        total == Len(res)
        successful == Cardinality({ i \in 1..Len(res) : res[i].val.status = "success" })
        rate == last.out.success_rate
    IN /\ rate[2] > 0
       /\ total = 0 => rate[1] = 0
       /\ total > 0 => rate[1] * total = successful * rate[2]
       /\ 0 <= rate[1] /\ rate[1] <= rate[2]

\* the key under which the summary counts the gates of a terminal status
CountKey(status) ==
  CASE status = "success" -> "successful"
    [] status = "failed" -> "failed"
    [] status = "skipped" -> "skipped"
    [] status = "timeout" -> "timeout"

\* C34 (SpecQueries): the summary has a count for each terminal status
\* (success, failed, skipped, timeout), and the counts add up to
\* total_gates
C34_CountPerTerminalStatus ==
  SummaryAsked =>
    /\ \A status \in GateStatus \ {"pending", "running"} :
         CountKey(status) \in DOMAIN last.out
    /\ last.out.successful + last.out.failed + last.out.skipped
         = last.out.total_gates

\* the formatter's output reports no file to reformat and none reformatted,
\* and says that the files are left unchanged or that there is nothing to do
FormatterClean(output) ==
  /\ ~Contains(Lower(output), <<"would", "reformat">>)
  /\ ~Contains(Lower(output), <<"reformatted">>)
  /\ \/ Contains(Lower(output), <<"left", "unchanged">>)
     \/ Contains(Lower(output), <<"nothing", "to", "do">>)

\* C35 (SpecFormatter): the default formatter gate is Success exactly when
\* its command ran to completion and its combined output, lower-cased,
\* contains neither "would reformat" nor "reformatted" and contains "left
\* unchanged" or "nothing to do"; the exit code does not matter.
C35_FormatterVerdictFromOutput ==
  GateReturned
  => ((last.result.status = "success")
        <=> (GateCompleted /\ FormatterClean(last.env.exec.out)))

C35_Witness ==
  /\ GateReturned /\ GateCompleted
  /\ last.env.exec.proc = "exitN"
  /\ Contains(last.env.exec.out, <<"Nothing", "to", "do">>)
  /\ last.result.status = "success"

\* C36 (SpecRuns): whatever calls were made before on the same runner, when
\* a run_quality_gates call returns the runner's results hold exactly the
\* gates that call visited, one result per gate.
C36_ResultsOfTheLastCallOnly ==
  (pc = "idle" /\ call.op \in {"run_all_gates", "legacy"})
  => /\ Range(Keys(results)) = Range(started)
     /\ NoKeyTwice(results)
     /\ returned = results

\* C37 (SpecManager): when run_all_gates(gate_names) returns, it returns one
\* result for each name that is both in gate_names and in the registry and
\* for no other name; with None or an empty list, one for each gate of the
\* registry. A name that is not in the registry gets no result and causes
\* no error: an exception that ends the call comes from a registered gate.
C37_ResultsForRequestedRegisteredNames ==
  (call.op = "run_all_gates" /\ call.via = "manager")
  => /\ pc = "idle"
        => /\ Range(Keys(returned))
                = IF call.gate_names = <<>> THEN Range(Keys(gates))
                  ELSE Range(call.gate_names) \cap Range(Keys(gates))
           /\ NoKeyTwice(returned)
     /\ pc = "raised"
        => /\ started # <<>>
           /\ Has(gates, started[Len(started)])

C37_Witness ==
  /\ pc = "idle" /\ call.op = "run_all_gates" /\ call.via = "manager"
  /\ Len(call.gate_names) = 2
  /\ ~Has(gates, call.gate_names[1])
  /\ Has(gates, call.gate_names[2])
  /\ Keys(returned) = <<call.gate_names[2]>>

\* C38 (SpecReview): a run_review call ends in one of two ways: it returns
\* a pair whose first component is True, or it raises an AIReviewError.
C38_ReturnsTrueOrRaisesAIReviewError ==
  /\ review.pc = "returned"
       => (review.outcome.kind = "return" /\ review.outcome.success)
  /\ review.pc = "raised"
       => /\ review.outcome.kind = "raise"
          /\ IsInstance(review.outcome.error.cls, "AIReviewError")

\* C39 (Spec): after a progressive run the names of get_successful_gates()
\* and of get_failed_gates() partition the result set: a gate is among the
\* successful ones iff its status is Success, every other gate is among
\* the failed ones; there are as many successful names as get_summary()
\* counts successful gates, and all_tools_passed() is true iff
\* get_failed_gates() is empty.
C39_NameListsPartitionTheResults ==
  ProgressiveReturned
  => LET ok == get_successful_gates(results)
         bad == get_failed_gates(results)
     IN /\ Range(ok) \cap Range(bad) = {}
        /\ Range(ok) \cup Range(bad) = Range(Keys(manager_results))
        /\ \A i \in 1..Len(manager_results) :
             IF manager_results[i].val.status = "success"
               THEN manager_results[i].key \in Range(ok)
               ELSE manager_results[i].key \in Range(bad)
        /\ Len(ok) = get_summary(manager_results).successful
        /\ all_tools_passed(results) <=> bad = <<>>

C39_Witness ==
  /\ ProgressiveReturned
  /\ Len(manager_results) = 2
  /\ manager_results[1].val.status = "skipped"
  /\ manager_results[2].val.status = "success"
  /\ get_failed_gates(results) = <<manager_results[1].key>>
  /\ get_successful_gates(results) = <<manager_results[2].key>>
  /\ ~all_tools_passed(results)

====
